---- MODULE Spec2Model ----
\* dropbox-appender: a run of the command-line tool appends one formatted
\* entry to the day's journal document held by the Dropbox content API.
\* Strings are TLA+ strings; \o, Len, SubSeq, Head and Tail act on them as on
\* sequences of characters.
EXTENDS Integers, Sequences, FiniteSets, TLC

\* ---------------------------------------------------------------------
\* Bounds of the model
\* ---------------------------------------------------------------------

\* invocations of the tool started in one behaviour
MaxRuns == 2

\* longest string handed to the pure functions in the function-level
\* specification
MaxStrLen == 3

\* the shells from which the tool is invoked; runsLeft tells how many runs
\* each of them starts
Procs == {"sh1", "sh2"}

\* ---------------------------------------------------------------------
\* Strings
\* ---------------------------------------------------------------------

\* strings.Contains
Contains(s, sub) ==
    \E i \in 1..(Len(s) + 1) :
        /\ i + Len(sub) - 1 <= Len(s)
        /\ SubSeq(s, i, i + Len(sub) - 1) = sub

\* unicode.IsSpace on the characters of the model
IsSpace(c) == c \in {" ", "\n", "\t"}

RECURSIVE TrimLeft(_)
TrimLeft(s) ==
    IF Len(s) > 0 /\ IsSpace(Head(s)) THEN TrimLeft(Tail(s)) ELSE s

RECURSIVE TrimRight(_)
TrimRight(s) ==
    IF Len(s) > 0 /\ IsSpace(SubSeq(s, Len(s), Len(s)))
    THEN TrimRight(SubSeq(s, 1, Len(s) - 1))
    ELSE s

\* strings.TrimSpace
TrimSpace(s) == TrimRight(TrimLeft(s))

\* strings.Join
RECURSIVE Join(_, _)
Join(elems, sep) ==
    IF Len(elems) = 0 THEN ""
    ELSE IF Len(elems) = 1 THEN elems[1]
    ELSE elems[1] \o sep \o Join(Tail(elems), sep)

\* one decimal digit
Digit(n) == SubSeq("0123456789", n + 1, n + 1)

\* time.Format of a two-digit field ("01", "02", "15", "04", "05")
Pad2(n) == Digit((n \div 10) % 10) \o Digit(n % 10)

\* time.Format of the year ("2006")
Pad4(n) == Pad2(n \div 100) \o Pad2(n % 100)

\* ---------------------------------------------------------------------
\* Errors, JSON bodies, HTTP responses
\* ---------------------------------------------------------------------

\* the nil error
Nil == [fmt |-> "", status |-> 0, text |-> "", cause |-> <<>>]

\* fmt.Errorf(fmt, ...): the format string, the status and text it is given
\* and the error it wraps with %w
Errorf(f, status, text, cause) ==
    [fmt |-> f, status |-> status, text |-> text, cause |-> cause]

\* an error of the transport or of the operating system
IOError(what) == Errorf(what, 0, "", <<>>)

\* a response body: its bytes, and what encoding/json makes of them
\* (whether they are a JSON object, and its string members)
Body(text, isJSON, members) ==
    [text |-> text, json |-> isJSON, members |-> members, mistyped |-> {}]

\* the bytes of a JSON object that has, besides its string members, the
\* members of keys with values that are not strings (numbers, arrays)
MistypedBody(text, members, keys) ==
    [text |-> text, json |-> TRUE, members |-> members, mistyped |-> keys]

\* json.Unmarshal into a struct field of type string: the member's value,
\* or the zero value when the bytes are not JSON or the member is missing
JSONString(body, key) ==
    IF body.json /\ \E kv \in body.members : kv[1] = key
    THEN (CHOOSE kv \in body.members : kv[1] = key)[2]
    ELSE ""

\* the error json.Unmarshal returns for a struct with the string fields
\* keys: a SyntaxError when the bytes are not a JSON object (no field is
\* set), an UnmarshalTypeError when a member of keys is not a string (the
\* other fields are set)
UnmarshalError(body, keys) ==
    IF ~body.json THEN IOError("json")
    ELSE IF body.mistyped \cap keys # {} THEN IOError("json type")
    ELSE Nil

\* what http.Client.Do and io.ReadAll give the caller: sent is FALSE when Do
\* fails, read is FALSE when reading the body fails
Response(sent, status, body, read) ==
    [sent |-> sent, status |-> status, body |-> body, read |-> read]

NoBody == Body("", FALSE, {})

TransportFailure == Response(FALSE, 0, NoBody, FALSE)

\* ---------------------------------------------------------------------
\* Storage client (DropboxClient)
\* ---------------------------------------------------------------------

\* the request Download builds: POST /2/files/download with the bearer
\* token and the JSON argument {"path": path}, no body
DownloadRequest(tok, p) ==
    [endpoint |-> "/2/files/download",
     auth |-> "Bearer " \o tok,
     arg |-> [path |-> p, mode |-> "", mute |-> FALSE],
     contentType |-> "",
     body |-> ""]

\* Download with the not_found test applied to every status but 200
DownloadAnyStatus(resp) ==
    IF ~resp.sent
    THEN [content |-> "",
          err |-> Errorf("download request: %w", 0, "", <<IOError("transport")>>)]
    ELSE IF ~resp.read
    THEN [content |-> "",
          err |-> Errorf("reading response: %w", 0, "", <<IOError("read")>>)]
    ELSE IF resp.status # 200
    THEN LET ErrorSummary == JSONString(resp.body, "error_summary") IN
         IF Contains(ErrorSummary, "not_found")
         THEN [content |-> "", err |-> Nil]
         ELSE [content |-> "",
               err |-> Errorf("dropbox API error: %s", 0, ErrorSummary, <<>>)]
    ELSE [content |-> resp.body.text, err |-> Nil]

\* Download with every 409 an error
DownloadConflictFails(resp) ==
    IF ~resp.sent
    THEN [content |-> "",
          err |-> Errorf("download request: %w", 0, "", <<IOError("transport")>>)]
    ELSE IF ~resp.read
    THEN [content |-> "",
          err |-> Errorf("reading response: %w", 0, "", <<IOError("read")>>)]
    ELSE IF resp.status # 200
    THEN [content |-> "",
          err |-> Errorf("dropbox API error (status %d): %s",
                         resp.status, resp.body.text, <<>>)]
    ELSE [content |-> resp.body.text, err |-> Nil]

\* DropboxClient.Download: the content and error it returns for a response
Download(resp) ==
    IF ~resp.sent
    THEN [content |-> "",
          err |-> Errorf("download request: %w", 0, "", <<IOError("transport")>>)]
    ELSE IF ~resp.read
    THEN [content |-> "",
          err |-> Errorf("reading response: %w", 0, "", <<IOError("read")>>)]
    ELSE IF resp.status = 409
    THEN LET ErrorSummary == JSONString(resp.body, "error_summary") IN
         IF Contains(ErrorSummary, "not_found")
         THEN [content |-> "", err |-> Nil]
         ELSE [content |-> "",
               err |-> Errorf("dropbox API error: %s", 0, ErrorSummary, <<>>)]
    ELSE IF resp.status # 200
    THEN [content |-> "",
          err |-> Errorf("dropbox API error (status %d): %s",
                         resp.status, resp.body.text, <<>>)]
    ELSE [content |-> resp.body.text, err |-> Nil]

\* the upload request without the mute member
UploadRequestUnmuted(tok, p, content) ==
    [endpoint |-> "/2/files/upload",
     auth |-> "Bearer " \o tok,
     arg |-> [path |-> p, mode |-> "overwrite", mute |-> FALSE],
     contentType |-> "application/octet-stream",
     body |-> content]

\* the request Upload builds: POST /2/files/upload with the bearer token,
\* the JSON argument {"path": path, "mode": "overwrite", "mute": true} and
\* the content as body
UploadRequest(tok, p, content) ==
    [endpoint |-> "/2/files/upload",
     auth |-> "Bearer " \o tok,
     arg |-> [path |-> p, mode |-> "overwrite", mute |-> TRUE],
     contentType |-> "application/octet-stream",
     body |-> content]

\* DropboxClient.Upload: the error it returns for a response
Upload(resp) ==
    IF ~resp.sent
    THEN Errorf("upload request: %w", 0, "", <<IOError("transport")>>)
    ELSE IF resp.status # 200
    THEN Errorf("dropbox API error (status %d): %s",
                resp.status, resp.body.text, <<>>)
    ELSE Nil

\* ---------------------------------------------------------------------
\* OAuth client
\* ---------------------------------------------------------------------

defaultTokenURL == "https://api.dropboxapi.com/oauth2/token"

\* the JSON members of a tokenResponse
tokenResponse == {"access_token", "refresh_token", "token_type"}

\* url.QueryEscape on the characters of the model
RECURSIVE QueryEscape(_)
QueryEscape(s) ==
    IF s = "" THEN ""
    ELSE LET c == Head(s) IN
         (IF c = " " THEN "+"
          ELSE IF c = "&" THEN "%26"
          ELSE IF c = "\n" THEN "%0A"
          ELSE IF c = "\t" THEN "%09"
          ELSE IF c = "<" THEN "%3C"
          ELSE IF c = "\"" THEN "%22"
          ELSE IF c = "\\" THEN "%5C"
          ELSE c) \o QueryEscape(Tail(s))

\* authorizeURL: url.Values.Encode writes the parameters sorted by key
authorizeURL(appKey) ==
    "https://www.dropbox.com/oauth2/authorize?"
        \o "client_id=" \o QueryEscape(appKey)
        \o "&response_type=code&token_access_type=offline"

\* the form exchangeCode posts
ExchangeRequest(tokenURL, appKey, appSecret, code) ==
    [endpoint |-> tokenURL,
     grant_type |-> "authorization_code",
     credential |-> code,
     client_id |-> appKey,
     client_secret |-> appSecret]

\* the nil *tokenResponse
NoTokens == [AccessToken |-> "", RefreshToken |-> "", TokenType |-> ""]

\* exchangeCode without the test of the status
exchangeCodeAnyStatus(resp) ==
    IF ~resp.sent
    THEN [result |-> NoTokens,
          err |-> Errorf("token request: %w", 0, "", <<IOError("transport")>>)]
    ELSE IF ~resp.read
    THEN [result |-> NoTokens,
          err |-> Errorf("reading response: %w", 0, "", <<IOError("read")>>)]
    ELSE IF UnmarshalError(resp.body, tokenResponse) # Nil
    THEN [result |-> NoTokens,
          err |-> Errorf("parsing response: %w", 0, "",
                         <<UnmarshalError(resp.body, tokenResponse)>>)]
    ELSE [result |-> [AccessToken |-> JSONString(resp.body, "access_token"),
                      RefreshToken |-> JSONString(resp.body, "refresh_token"),
                      TokenType |-> JSONString(resp.body, "token_type")],
          err |-> Nil]

\* exchangeCode: the tokenResponse and error it returns for a response
exchangeCode(resp) ==
    IF ~resp.sent
    THEN [result |-> NoTokens,
          err |-> Errorf("token request: %w", 0, "", <<IOError("transport")>>)]
    ELSE IF ~resp.read
    THEN [result |-> NoTokens,
          err |-> Errorf("reading response: %w", 0, "", <<IOError("read")>>)]
    ELSE IF resp.status # 200
    THEN [result |-> NoTokens,
          err |-> Errorf("token exchange failed (status %d): %s",
                         resp.status, TrimSpace(resp.body.text), <<>>)]
    ELSE IF UnmarshalError(resp.body, tokenResponse) # Nil
    THEN [result |-> NoTokens,
          err |-> Errorf("parsing response: %w", 0, "",
                         <<UnmarshalError(resp.body, tokenResponse)>>)]
    ELSE [result |-> [AccessToken |-> JSONString(resp.body, "access_token"),
                      RefreshToken |-> JSONString(resp.body, "refresh_token"),
                      TokenType |-> JSONString(resp.body, "token_type")],
          err |-> Nil]

\* the form refreshAccessToken posts
RefreshRequest(tokenURL, appKey, appSecret, refreshToken) ==
    [endpoint |-> tokenURL,
     grant_type |-> "refresh_token",
     credential |-> refreshToken,
     client_id |-> appKey,
     client_secret |-> appSecret]

\* refreshAccessToken: the access token and error it returns for a response
refreshAccessToken(resp) ==
    IF ~resp.sent
    THEN [token |-> "",
          err |-> Errorf("refresh request: %w", 0, "", <<IOError("transport")>>)]
    ELSE IF ~resp.read
    THEN [token |-> "",
          err |-> Errorf("reading response: %w", 0, "", <<IOError("read")>>)]
    ELSE IF resp.status # 200
    THEN [token |-> "",
          err |-> Errorf("token refresh failed (status %d): %s",
                         resp.status, TrimSpace(resp.body.text), <<>>)]
    ELSE IF UnmarshalError(resp.body, tokenResponse) # Nil
    THEN [token |-> "",
          err |-> Errorf("parsing response: %w", 0, "",
                         <<UnmarshalError(resp.body, tokenResponse)>>)]
    ELSE [token |-> JSONString(resp.body, "access_token"), err |-> Nil]

\* ---------------------------------------------------------------------
\* Config store
\* ---------------------------------------------------------------------

\* the zero-valued Config
ZeroConfig == [AppKey |-> "", AppSecret |-> "", RefreshToken |-> ""]

\* the JSON members of a Config
ConfigKeys == {"app_key", "app_secret", "refresh_token"}

\* a byte that is not valid UTF-8 is written "^" in the strings of the
\* model, and the replacement character U+FFFD is written "?"
InvalidByte == "^"

ReplacementChar == "?"

\* the character of s at position i, "" past the end
Char(s, i) == IF i >= 1 /\ i <= Len(s) THEN SubSeq(s, i, i) ELSE ""

\* encoding/json's encoding of one character inside a string literal
EscapeChar(c) ==
    IF c = "\"" THEN "\\\""
    ELSE IF c = "\\" THEN "\\\\"
    ELSE IF c = "\n" THEN "\\n"
    ELSE IF c = "\t" THEN "\\t"
    ELSE IF c = "<" THEN "\\u003c"
    ELSE IF c = "&" THEN "\\u0026"
    ELSE IF c = InvalidByte THEN "\\ufffd"
    ELSE c

\* encoding/json's string literal for s
RECURSIVE Escape(_)
Escape(s) == IF s = "" THEN "" ELSE EscapeChar(Head(s)) \o Escape(Tail(s))

Quote(s) == "\"" \o Escape(s) \o "\""

\* the indented object with the values put between quotes as they are
MarshalIndentUnescaped(config) ==
    "{\n  \"app_key\": \"" \o config.AppKey
        \o "\",\n  \"app_secret\": \"" \o config.AppSecret
        \o "\",\n  \"refresh_token\": \"" \o config.RefreshToken
        \o "\"\n}"

\* json.MarshalIndent(cfg, "", "  ")
MarshalIndent(config) ==
    "{\n  \"app_key\": " \o Quote(config.AppKey)
        \o ",\n  \"app_secret\": " \o Quote(config.AppSecret)
        \o ",\n  \"refresh_token\": " \o Quote(config.RefreshToken)
        \o "\n}"

\* the decoder's failure
NoParse == [ok |-> FALSE, value |-> "", next |-> 0]

\* encoding/json's decoding of the string literal of s whose opening quote
\* is before position i: the value and the position after the closing
\* quote. acc is the value decoded so far.
RECURSIVE ScanString(_, _, _)
ScanString(s, i, acc) ==
    LET c == Char(s, i)
        e == Char(s, i + 1)
        hex == IF i + 5 <= Len(s) THEN SubSeq(s, i + 2, i + 5) ELSE ""
    IN  IF c = "" \/ c = "\n" \/ c = "\t" THEN NoParse
        ELSE IF c = "\"" THEN [ok |-> TRUE, value |-> acc, next |-> i + 1]
        ELSE IF c = InvalidByte THEN ScanString(s, i + 1, acc \o ReplacementChar)
        ELSE IF c # "\\" THEN ScanString(s, i + 1, acc \o c)
        ELSE IF e \in {"\"", "\\", "/"} THEN ScanString(s, i + 2, acc \o e)
        ELSE IF e = "n" THEN ScanString(s, i + 2, acc \o "\n")
        ELSE IF e = "t" THEN ScanString(s, i + 2, acc \o "\t")
        ELSE IF e = "u" /\ hex = "003c" THEN ScanString(s, i + 6, acc \o "<")
        ELSE IF e = "u" /\ hex = "0026" THEN ScanString(s, i + 6, acc \o "&")
        ELSE IF e = "u" /\ hex = "fffd"
        THEN ScanString(s, i + 6, acc \o ReplacementChar)
        ELSE NoParse

\* the position of the first character of s at or after i that is not
\* JSON white space
RECURSIVE SkipSpace(_, _)
SkipSpace(s, i) == IF IsSpace(Char(s, i)) THEN SkipSpace(s, i + 1) ELSE i

\* the members of the JSON object of s from position i, which follows "{"
\* or ","; a later member of the same key replaces an earlier one. The
\* decoder of the model reads objects whose values are string literals.
RECURSIVE ScanMembers(_, _, _)
ScanMembers(s, i, acc) ==
    LET k0 == SkipSpace(s, i)
        key == IF Char(s, k0) = "\"" THEN ScanString(s, k0 + 1, "") ELSE NoParse
        colon == SkipSpace(s, key.next)
        v0 == SkipSpace(s, colon + 1)
        val == IF key.ok /\ Char(s, colon) = ":" /\ Char(s, v0) = "\""
               THEN ScanString(s, v0 + 1, "") ELSE NoParse
        after == SkipSpace(s, val.next)
        members == {kv \in acc : kv[1] # key.value} \cup {<<key.value, val.value>>}
    IN  IF ~val.ok THEN [ok |-> FALSE, members |-> {}]
        ELSE IF Char(s, after) = "," THEN ScanMembers(s, after + 1, members)
        ELSE IF Char(s, after) = "}" /\ SkipSpace(s, after + 1) = Len(s) + 1
        THEN [ok |-> TRUE, members |-> members]
        ELSE [ok |-> FALSE, members |-> {}]

\* what encoding/json makes of the bytes of s
DecodeObject(s) ==
    LET open == SkipSpace(s, 1)
        first == SkipSpace(s, open + 1)
    IN  IF Char(s, open) # "{" THEN [ok |-> FALSE, members |-> {}]
        ELSE IF Char(s, first) = "}"
        THEN [ok |-> SkipSpace(s, first + 1) = Len(s) + 1, members |-> {}]
        ELSE ScanMembers(s, open + 1, {})

\* the body of the bytes s
BodyOf(s) == Body(s, DecodeObject(s).ok, DecodeObject(s).members)

\* loadConfig returning as soon as the file cannot be read
loadConfigEarlyReturn(file, env) ==
    IF ~file.exists THEN ZeroConfig
    ELSE LET fromFile ==
                 [AppKey |-> JSONString(file.body, "app_key"),
                  AppSecret |-> JSONString(file.body, "app_secret"),
                  RefreshToken |-> JSONString(file.body, "refresh_token")]
         IN  [AppKey |-> IF env.DROPBOX_APP_KEY # ""
                         THEN env.DROPBOX_APP_KEY ELSE fromFile.AppKey,
              AppSecret |-> IF env.DROPBOX_APP_SECRET # ""
                            THEN env.DROPBOX_APP_SECRET ELSE fromFile.AppSecret,
              RefreshToken |-> IF env.DROPBOX_REFRESH_TOKEN # ""
                               THEN env.DROPBOX_REFRESH_TOKEN
                               ELSE fromFile.RefreshToken]

\* loadConfig with the environment taken as a whole as soon as one of its
\* variables is set
loadConfigAllOrNothing(file, env) ==
    LET fromFile ==
            IF file.exists
            THEN [AppKey |-> JSONString(file.body, "app_key"),
                  AppSecret |-> JSONString(file.body, "app_secret"),
                  RefreshToken |-> JSONString(file.body, "refresh_token")]
            ELSE ZeroConfig
    IN  IF env.DROPBOX_APP_KEY # "" \/ env.DROPBOX_APP_SECRET # ""
              \/ env.DROPBOX_REFRESH_TOKEN # ""
        THEN [AppKey |-> env.DROPBOX_APP_KEY,
              AppSecret |-> env.DROPBOX_APP_SECRET,
              RefreshToken |-> env.DROPBOX_REFRESH_TOKEN]
        ELSE fromFile

\* loadConfig with the file's values taking precedence: an environment
\* variable fills only a field the file leaves empty
loadConfigFileWins(file, env) ==
    LET fromFile ==
            IF file.exists
            THEN [AppKey |-> JSONString(file.body, "app_key"),
                  AppSecret |-> JSONString(file.body, "app_secret"),
                  RefreshToken |-> JSONString(file.body, "refresh_token")]
            ELSE ZeroConfig
    IN  [AppKey |-> IF fromFile.AppKey = ""
                    THEN env.DROPBOX_APP_KEY ELSE fromFile.AppKey,
         AppSecret |-> IF fromFile.AppSecret = ""
                       THEN env.DROPBOX_APP_SECRET ELSE fromFile.AppSecret,
         RefreshToken |-> IF fromFile.RefreshToken = ""
                          THEN env.DROPBOX_REFRESH_TOKEN
                          ELSE fromFile.RefreshToken]

\* loadConfig: the file's members when it can be read and parsed, the zero
\* Config otherwise; then each non-empty environment variable overrides
\* its field
loadConfig(file, env) ==
    LET fromFile ==
            IF file.exists
            THEN [AppKey |-> JSONString(file.body, "app_key"),
                  AppSecret |-> JSONString(file.body, "app_secret"),
                  RefreshToken |-> JSONString(file.body, "refresh_token")]
            ELSE ZeroConfig
    IN  [AppKey |-> IF env.DROPBOX_APP_KEY # ""
                    THEN env.DROPBOX_APP_KEY ELSE fromFile.AppKey,
         AppSecret |-> IF env.DROPBOX_APP_SECRET # ""
                       THEN env.DROPBOX_APP_SECRET ELSE fromFile.AppSecret,
         RefreshToken |-> IF env.DROPBOX_REFRESH_TOKEN # ""
                          THEN env.DROPBOX_REFRESH_TOKEN
                          ELSE fromFile.RefreshToken]

\* saveConfig: how is what the file system does. "mkdir": MkdirAll fails;
\* "open": WriteFile cannot open the file; "write": WriteFile has opened
\* and truncated the file and the write fails; "written": the file holds the
\* indented JSON of the Config. The file it leaves and the error it returns.
saveConfig(file, config, how) ==
    IF how = "mkdir" THEN [file |-> file, err |-> IOError("mkdir")]
    ELSE IF how = "open" THEN [file |-> file, err |-> IOError("open")]
    ELSE IF how = "write"
    THEN [file |-> [exists |-> TRUE, body |-> BodyOf("")], err |-> IOError("write")]
    ELSE [file |-> [exists |-> TRUE, body |-> BodyOf(MarshalIndent(config))],
          err |-> Nil]

\* ---------------------------------------------------------------------
\* Entry formatter, content combiner, input reader, token resolver
\* ---------------------------------------------------------------------

\* resolvePath with the month of the directory not padded
resolvePathUnpadded(t) ==
    "/Notes/Journal/" \o Pad4(t.year) \o "/"
        \o (IF t.month < 10 THEN Digit(t.month) ELSE Pad2(t.month))
        \o "/Note" \o Pad4(t.year) \o Pad2(t.month) \o Pad2(t.day) \o ".md"

\* resolvePath: /Notes/Journal/YYYY/MM/NoteYYYYMMDD.md
resolvePath(t) ==
    "/Notes/Journal/" \o Pad4(t.year) \o "/" \o Pad2(t.month)
        \o "/Note" \o Pad4(t.year) \o Pad2(t.month) \o Pad2(t.day) \o ".md"

\* formatEntry with the hour of the 12-hour clock
formatEntry12Hour(t, text, noTs) ==
    IF noTs
    THEN text \o "\n"
    ELSE "### " \o Pad2(IF t.hour % 12 = 0 THEN 12 ELSE t.hour % 12) \o ":"
             \o Pad2(t.minute) \o ":" \o Pad2(t.second) \o "\n" \o text \o "\n"

\* formatEntry: the text and a newline, under a "### HH:MM:SS" header
\* unless noTimestamp
formatEntry(t, text, noTs) ==
    IF noTs
    THEN text \o "\n"
    ELSE "### " \o Pad2(t.hour) \o ":" \o Pad2(t.minute) \o ":"
             \o Pad2(t.second) \o "\n" \o text \o "\n"

\* readInput with piped standard input taking precedence over the arguments
readInputStdinFirst(arglist, in) ==
    IF in.kind = "pipe" /\ ~in.fails /\ TrimSpace(in.data) # ""
    THEN [text |-> TrimSpace(in.data), err |-> Nil,
          consumed |-> TRUE, panic |-> FALSE]
    ELSE IF Len(arglist) > 0
    THEN [text |-> Join(arglist, " "), err |-> Nil,
          consumed |-> (in.kind = "pipe"), panic |-> FALSE]
    ELSE [text |-> "",
          err |-> Errorf("no input provided: pass text as argument or via stdin",
                         0, "", <<>>),
          consumed |-> (in.kind = "pipe"), panic |-> FALSE]

\* readInput with the standard input taken as it is read, not trimmed
readInputUntrimmed(arglist, in) ==
    IF Len(arglist) > 0
    THEN [text |-> Join(arglist, " "), err |-> Nil,
          consumed |-> FALSE, panic |-> FALSE]
    ELSE IF in.kind = "closed"
    THEN [text |-> "", err |-> Nil, consumed |-> FALSE, panic |-> TRUE]
    ELSE IF in.kind = "pipe" /\ in.fails
    THEN [text |-> "",
          err |-> Errorf("reading stdin: %w", 0, "", <<IOError("read")>>),
          consumed |-> TRUE, panic |-> FALSE]
    ELSE IF in.kind = "pipe" /\ in.data # ""
    THEN [text |-> in.data, err |-> Nil,
          consumed |-> TRUE, panic |-> FALSE]
    ELSE [text |-> "",
          err |-> Errorf("no input provided: pass text as argument or via stdin",
                         0, "", <<>>),
          consumed |-> (in.kind = "pipe"), panic |-> FALSE]

\* readInput applying the non-emptiness check to the arguments as well
readInputRejectsBlank(arglist, in) ==
    IF Len(arglist) > 0 /\ TrimSpace(Join(arglist, " ")) # ""
    THEN [text |-> Join(arglist, " "), err |-> Nil,
          consumed |-> FALSE, panic |-> FALSE]
    ELSE IF Len(arglist) > 0
    THEN [text |-> "",
          err |-> Errorf("no input provided: pass text as argument or via stdin",
                         0, "", <<>>),
          consumed |-> FALSE, panic |-> FALSE]
    ELSE IF in.kind = "closed"
    THEN [text |-> "", err |-> Nil, consumed |-> FALSE, panic |-> TRUE]
    ELSE IF in.kind = "pipe" /\ in.fails
    THEN [text |-> "",
          err |-> Errorf("reading stdin: %w", 0, "", <<IOError("read")>>),
          consumed |-> TRUE, panic |-> FALSE]
    ELSE IF in.kind = "pipe" /\ TrimSpace(in.data) # ""
    THEN [text |-> TrimSpace(in.data), err |-> Nil,
          consumed |-> TRUE, panic |-> FALSE]
    ELSE [text |-> "",
          err |-> Errorf("no input provided: pass text as argument or via stdin",
                         0, "", <<>>),
          consumed |-> (in.kind = "pipe"), panic |-> FALSE]

\* readInput: the arguments joined with spaces when there are any;
\* otherwise the trimmed standard input when it is not a terminal and the
\* trimmed text is not empty. in is the standard input: its kind ("tty",
\* "pipe" or "closed"), its data and whether reading it fails. consumed
\* tells whether standard input was read; a closed standard input that
\* the runtime has not reopened makes Stat return a nil FileInfo, whose
\* error is dropped, and stat.Mode() panics.
readInput(arglist, in) ==
    IF Len(arglist) > 0
    THEN [text |-> Join(arglist, " "), err |-> Nil,
          consumed |-> FALSE, panic |-> FALSE]
    ELSE IF in.kind = "closed"
    THEN [text |-> "", err |-> Nil, consumed |-> FALSE, panic |-> TRUE]
    ELSE IF in.kind = "pipe" /\ in.fails
    THEN [text |-> "",
          err |-> Errorf("reading stdin: %w", 0, "", <<IOError("read")>>),
          consumed |-> TRUE, panic |-> FALSE]
    ELSE IF in.kind = "pipe" /\ TrimSpace(in.data) # ""
    THEN [text |-> TrimSpace(in.data), err |-> Nil,
          consumed |-> TRUE, panic |-> FALSE]
    ELSE [text |-> "",
          err |-> Errorf("no input provided: pass text as argument or via stdin",
                         0, "", <<>>),
          consumed |-> (in.kind = "pipe"), panic |-> FALSE]

\* appendContent without the separator
appendContentNoSeparator(existing, entry) ==
    existing \o entry

\* appendContent with the new entry put first
appendContentPrepend(existing, entry) ==
    IF existing = "" THEN entry ELSE entry \o "\n" \o existing

\* appendContent with the trailing white space of the document normalised
appendContentNormalised(existing, entry) ==
    IF existing = "" THEN entry ELSE TrimRight(existing) \o "\n\n" \o entry

\* appendContent: the entry alone for an empty document, else the
\* document, a newline and the entry
appendContent(existing, entry) ==
    IF existing = "" THEN entry ELSE existing \o "\n" \o entry

\* resolveToken with the refresh tried before the direct token
resolveTokenRefreshFirst(config, envToken, resp) ==
    IF config.RefreshToken # "" /\ config.AppKey # "" /\ config.AppSecret # ""
    THEN LET r == refreshAccessToken(resp)
             call == RefreshRequest(defaultTokenURL, config.AppKey,
                                    config.AppSecret, config.RefreshToken)
         IN  IF r.err # Nil
             THEN [token |-> "",
                   err |-> Errorf("refresh token invalid, run: dropbox-appender auth\n  (%w)",
                                  0, "", <<r.err>>),
                   calls |-> <<call>>]
             ELSE [token |-> r.token, err |-> Nil, calls |-> <<call>>]
    ELSE IF envToken # ""
    THEN [token |-> envToken, err |-> Nil, calls |-> <<>>]
    ELSE [token |-> "",
          err |-> Errorf("no authentication configured, run: dropbox-appender auth",
                         0, "", <<>>),
          calls |-> <<>>]

\* resolveToken with a failed refresh tried a second time and its cause dropped
resolveTokenRetry(config, envToken, resp) ==
    IF envToken # ""
    THEN [token |-> envToken, err |-> Nil, calls |-> <<>>]
    ELSE IF config.RefreshToken # "" /\ config.AppKey # "" /\ config.AppSecret # ""
    THEN LET r == refreshAccessToken(resp)
             call == RefreshRequest(defaultTokenURL, config.AppKey,
                                    config.AppSecret, config.RefreshToken)
         IN  IF r.err # Nil
             THEN [token |-> "",
                   err |-> Errorf("refresh token invalid, run: dropbox-appender auth",
                                  0, "", <<>>),
                   calls |-> <<call, call>>]
             ELSE [token |-> r.token, err |-> Nil, calls |-> <<call>>]
    ELSE [token |-> "",
          err |-> Errorf("no authentication configured, run: dropbox-appender auth",
                         0, "", <<>>),
          calls |-> <<>>]

\* resolveToken with a refresh as soon as a refresh token is configured
resolveTokenAnyCredential(config, envToken, resp) ==
    IF envToken # ""
    THEN [token |-> envToken, err |-> Nil, calls |-> <<>>]
    ELSE IF config.RefreshToken # "" \/ config.AppKey # "" \/ config.AppSecret # ""
    THEN LET r == refreshAccessToken(resp)
             call == RefreshRequest(defaultTokenURL, config.AppKey,
                                    config.AppSecret, config.RefreshToken)
         IN  IF r.err # Nil
             THEN [token |-> "",
                   err |-> Errorf("refresh token invalid, run: dropbox-appender auth\n  (%w)",
                                  0, "", <<r.err>>),
                   calls |-> <<call>>]
             ELSE [token |-> r.token, err |-> Nil, calls |-> <<call>>]
    ELSE [token |-> "",
          err |-> Errorf("no authentication configured, run: dropbox-appender auth",
                         0, "", <<>>),
          calls |-> <<>>]

\* resolveToken: the DROPBOX_TOKEN of the environment when set; else one
\* refresh when the Config has all three credentials; else an error.
\* calls is the sequence of requests sent to the token endpoint.
resolveToken(config, envToken, resp) ==
    IF envToken # ""
    THEN [token |-> envToken, err |-> Nil, calls |-> <<>>]
    ELSE IF config.RefreshToken # "" /\ config.AppKey # "" /\ config.AppSecret # ""
    THEN LET r == refreshAccessToken(resp)
             call == RefreshRequest(defaultTokenURL, config.AppKey,
                                    config.AppSecret, config.RefreshToken)
         IN  IF r.err # Nil
             THEN [token |-> "",
                   err |-> Errorf("refresh token invalid, run: dropbox-appender auth\n  (%w)",
                                  0, "", <<r.err>>),
                   calls |-> <<call>>]
             ELSE [token |-> r.token, err |-> Nil, calls |-> <<call>>]
    ELSE [token |-> "",
          err |-> Errorf("no authentication configured, run: dropbox-appender auth",
                         0, "", <<>>),
          calls |-> <<>>]

\* the first line of s without its end-of-line marker
RECURSIVE FirstLine(_)
FirstLine(s) ==
    IF s = "" \/ Head(s) = "\n" THEN "" ELSE Head(s) \o FirstLine(Tail(s))

\* bufio.Scanner on standard input, Scan() once and Text(): the first
\* line, or "" when nothing can be read
ScanText(in) ==
    IF in.kind = "closed" \/ in.fails THEN "" ELSE FirstLine(in.data)

\* the command line is the auth subcommand
IsAuth(cmdline) == Len(cmdline) > 0 /\ cmdline[1] = "auth"

\* flag.Parse with the one boolean flag -no-timestamp, on command lines
\* that give the flag without a value: leading flags are consumed, "--"
\* ends them, the rest are the positional arguments. err is "help" for
\* -h and -help, "undefined" for another flag, "" otherwise.
RECURSIVE flagParse(_)
flagParse(cmdline) ==
    IF Len(cmdline) = 0 \/ Len(Head(cmdline)) < 2 \/ Char(Head(cmdline), 1) # "-"
    THEN [noTimestamp |-> FALSE, args |-> cmdline, err |-> ""]
    ELSE IF Head(cmdline) = "--"
    THEN [noTimestamp |-> FALSE, args |-> Tail(cmdline), err |-> ""]
    ELSE IF Head(cmdline) \in {"-no-timestamp", "--no-timestamp"}
    THEN [noTimestamp |-> TRUE,
          args |-> flagParse(Tail(cmdline)).args,
          err |-> flagParse(Tail(cmdline)).err]
    ELSE IF Head(cmdline) \in {"-h", "--h", "-help", "--help"}
    THEN [noTimestamp |-> FALSE, args |-> <<>>, err |-> "help"]
    ELSE [noTimestamp |-> FALSE, args |-> <<>>, err |-> "undefined"]

\* ---------------------------------------------------------------------
\* Inputs of the model
\* ---------------------------------------------------------------------

\* command lines (os.Args[1:])
Argvs ==
    {<<>>, <<"a">>, <<"b", "c">>, <<"">>, <<" ">>, <<"-no-timestamp", "a">>,
     <<"auth">>, <<"-x">>, <<"-h">>}

\* standard input of a run
StdinOf(kind, data, fails) ==
    [kind |-> kind, data |-> data, fails |-> fails, consumed |-> FALSE]

StdinTTY == StdinOf("tty", "", FALSE)

StdinPiped == StdinOf("pipe", " x y\n", FALSE)

Stdins ==
    {StdinTTY, StdinPiped, StdinOf("closed", "", FALSE),
     StdinOf("pipe", "", FALSE), StdinOf("pipe", " \n\t", FALSE),
     StdinOf("pipe", "", TRUE)}

\* standard input of a run of the auth subcommand: a terminal at which the
\* user types a code, an empty line or the end of input, a pipe that holds
\* two lines, a pipe that fails and a closed standard input
AuthStdins ==
    {StdinOf("tty", " code1 \n", FALSE), StdinOf("tty", " \t\n", FALSE),
     StdinTTY, StdinOf("pipe", "code2\nmore\n", FALSE),
     StdinOf("pipe", "", TRUE), StdinOf("closed", "", FALSE)}

\* a command line and a standard input; with positional arguments the
\* standard input is a terminal or a pipe holding text, and with a command
\* line that flag.Parse refuses it is a terminal
Invocations ==
    {iv \in Argvs \X (Stdins \cup AuthStdins) :
        IF IsAuth(iv[1]) THEN iv[2] \in AuthStdins
        ELSE IF flagParse(iv[1]).err # "" THEN iv[2] = StdinTTY
        ELSE /\ iv[2] \in Stdins
             /\ Len(flagParse(iv[1]).args) > 0 => iv[2] \in {StdinTTY, StdinPiped}}

\* the invocations of the append flow
AppendInvocations == {iv \in Invocations : ~IsAuth(iv[1])}

\* values of time.Now(): two times of one day and one of another day
Times ==
    {[year |-> 2025, month |-> 1, day |-> 15, hour |-> 14, minute |-> 30, second |-> 45],
     [year |-> 2025, month |-> 1, day |-> 15, hour |-> 9, minute |-> 0, second |-> 7],
     [year |-> 2025, month |-> 12, day |-> 3, hour |-> 9, minute |-> 0, second |-> 0]}

\* the zero time.Time of a run that has not called time.Now()
NoTime == [year |-> 0, month |-> 0, day |-> 0, hour |-> 0, minute |-> 0, second |-> 0]

Paths == {resolvePath(t) : t \in Times}

\* environments of a shell
Envs ==
    [DROPBOX_TOKEN : {"", "direct_token"},
     DROPBOX_APP_KEY : {"", "env_key"},
     DROPBOX_APP_SECRET : {"", "env_secret"},
     DROPBOX_REFRESH_TOKEN : {"", "env_refresh"}]

EmptyEnv ==
    [DROPBOX_TOKEN |-> "", DROPBOX_APP_KEY |-> "",
     DROPBOX_APP_SECRET |-> "", DROPBOX_REFRESH_TOKEN |-> ""]

DirectTokenEnv == [EmptyEnv EXCEPT !.DROPBOX_TOKEN = "direct_token"]

\* a file: whether it exists, and its content
NoFile == [exists |-> FALSE, body |-> NoBody]

FileOf(body) == [exists |-> TRUE, body |-> body]

\* config files found at the start
ConfigFiles ==
    {NoFile,
     FileOf(Body("not json", FALSE, {})),
     FileOf(Body("{\"app_key\":\"file_key\",\"app_secret\":\"file_secret\",\"refresh_token\":\"file_refresh\"}",
                 TRUE,
                 {<<"app_key", "file_key">>, <<"app_secret", "file_secret">>,
                  <<"refresh_token", "file_refresh">>})),
     FileOf(Body("{\"app_key\":\"file_key\",\"app_secret\":\"file_secret\"}",
                 TRUE,
                 {<<"app_key", "file_key">>, <<"app_secret", "file_secret">>})),
     FileOf(MistypedBody("{\"app_key\":\"file_key\",\"app_secret\":5}",
                         {<<"app_key", "file_key">>}, {"app_secret"}))}

\* a remote document: whether it exists, and its content
NoDoc == [exists |-> FALSE, content |-> ""]

DocOf(content) == [exists |-> TRUE, content |-> content]

\* documents found on the server at the start, for the first day
InitialDocs ==
    {NoDoc, DocOf(""), DocOf("### 10:00:00\nmorning note\n"), DocOf("x")}

\* answers of the token endpoint to a refresh
TokenResponses ==
    {TransportFailure,
     Response(TRUE, 200, NoBody, FALSE),
     Response(TRUE, 400, Body(" {\"error_description\":\"invalid refresh token\"}\n",
                              TRUE, {<<"error_description", "invalid refresh token">>}), TRUE),
     Response(TRUE, 200, Body("<html>", FALSE, {}), TRUE),
     Response(TRUE, 200, Body("{\"access_token\":\"fresh_token\",\"token_type\":\"bearer\"}",
                              TRUE, {<<"access_token", "fresh_token">>,
                                     <<"token_type", "bearer">>}), TRUE),
     Response(TRUE, 200, MistypedBody("{\"access_token\":12345}", {}, {"access_token"}), TRUE)}

\* answers of the token endpoint to a code exchange
ExchangeResponses ==
    {TransportFailure,
     Response(TRUE, 200, NoBody, FALSE),
     Response(TRUE, 400, Body(" {\"error\":\"invalid_grant\"}\n",
                              TRUE, {<<"error", "invalid_grant">>}), TRUE),
     Response(TRUE, 200, Body("<html>", FALSE, {}), TRUE),
     Response(TRUE, 200,
              MistypedBody("{\"access_token\":\"at1\",\"token_type\":\"bearer\",\"expires_in\":14400,\"refresh_token\":\"new_refresh\"}",
                           {<<"access_token", "at1">>, <<"token_type", "bearer">>,
                            <<"refresh_token", "new_refresh">>},
                           {"expires_in"}), TRUE),
     Response(TRUE, 200, Body("{\"access_token\":\"at2\",\"token_type\":\"bearer\"}",
                              TRUE, {<<"access_token", "at2">>,
                                     <<"token_type", "bearer">>}), TRUE),
     Response(TRUE, 200,
              MistypedBody("{\"access_token\":\"at3\",\"refresh_token\":12345}",
                           {<<"access_token", "at3">>}, {"refresh_token"}), TRUE)}

\* what the file system does with a saveConfig
SaveOutcomes == {"mkdir", "open", "write", "written"}

\* the server's answer to a download of a document: the content with 200,
\* or 409 path/not_found when there is no document
ServerDownload(doc) ==
    IF doc.exists
    THEN Response(TRUE, 200, Body(doc.content, FALSE, {}), TRUE)
    ELSE Response(TRUE, 409, Body("{\"error_summary\": \"path/not_found/..\"}",
                                  TRUE, {<<"error_summary", "path/not_found/..">>}), TRUE)

\* answers to a download when the server or the network fails
DownloadFaults ==
    {TransportFailure,
     Response(TRUE, 200, NoBody, FALSE),
     Response(TRUE, 409, NoBody, FALSE),
     Response(TRUE, 409, Body("{\"error_summary\": \"path/malformed_path/.\"}",
                              TRUE, {<<"error_summary", "path/malformed_path/.">>}), TRUE),
     Response(TRUE, 409, Body("{}", TRUE, {}), TRUE),
     Response(TRUE, 409, Body("conflict", FALSE, {}), TRUE),
     Response(TRUE, 500, Body("{\"error_summary\": \"not_found\"}",
                              TRUE, {<<"error_summary", "not_found">>}), TRUE),
     Response(TRUE, 401, Body("", FALSE, {}), TRUE)}

\* answers to an upload: applied says whether the server wrote the
\* document. Upload does not read the body of a 200 response, and the
\* response to an applied upload can be lost.
UploadOutcomes ==
    {[applied |-> TRUE, resp |-> Response(TRUE, 200, Body("{}", TRUE, {}), TRUE)],
     [applied |-> TRUE, resp |-> Response(TRUE, 200, NoBody, FALSE)],
     [applied |-> FALSE, resp |-> Response(TRUE, 500, Body("{\"error_summary\": \"internal\"}",
                                      TRUE, {<<"error_summary", "internal">>}), TRUE)],
     [applied |-> FALSE, resp |-> Response(TRUE, 409, Body("{\"error_summary\": \"path/not_found/\"}",
                                      TRUE, {<<"error_summary", "path/not_found/">>}), TRUE)],
     [applied |-> FALSE, resp |-> TransportFailure],
     [applied |-> TRUE, resp |-> TransportFailure]}

\* ---------------------------------------------------------------------
\* State
\* ---------------------------------------------------------------------

VARIABLES
    remote,       \* the server's documents, by path
    writes,       \* the uploads the server has applied, in order
    log,          \* the path and entry of each run that succeeded, in order
    configFile,   \* the config file of the user
    env,          \* the environment of each shell
    runsLeft,     \* how many more runs each shell starts
    pc,           \* where each shell's current run is
    argv,         \* os.Args[1:] of the run
    stdin,        \* the standard input of the run
    noTimestamp,  \* main: *noTimestamp
    args,         \* main: flag.Args()
    cfg,          \* main: cfg
    token,        \* main: token
    input,        \* main: input
    now,          \* main: now
    path,         \* main: path
    entry,        \* main: entry
    existing,     \* main: existing
    newContent,   \* main: newContent
    code,         \* runAuth: code
    calls,        \* the requests of the run, each with its response and
                  \* the error the client returned for it, in order
    steps,        \* the steps of main the run has executed, in order
    exitCode,     \* the exit code of the run, -1 while there is none
    stdout,       \* what the run printed on standard output
    stderr,       \* the errors the run printed on standard error
    call          \* function-level specification: the last application

outside == <<configFile, env, call>>

world == <<remote, writes, log, outside>>

locals == <<noTimestamp, args, cfg, token, input, now, path, entry,
            existing, newContent, code>>

vars == <<remote, writes, log, configFile, env, runsLeft, pc, argv, stdin,
          noTimestamp, args, cfg, token, input, now, path, entry,
          existing, newContent, code, calls, steps, exitCode, stdout, stderr,
          call>>

\* no function is applied
NoCall == [fn |-> "none", done |-> TRUE]

\* the path of the first day of Times
FirstPath == "/Notes/Journal/2025/01/Note20250115.md"

\* the parts of the initial state that do not depend on the scenario
InitRun ==
    /\ writes = <<>>
    /\ log = <<>>
    /\ pc = [p \in Procs |-> "idle"]
    /\ argv = [p \in Procs |-> <<>>]
    /\ stdin = [p \in Procs |-> StdinTTY]
    /\ noTimestamp = [p \in Procs |-> FALSE]
    /\ args = [p \in Procs |-> <<>>]
    /\ cfg = [p \in Procs |-> ZeroConfig]
    /\ token = [p \in Procs |-> ""]
    /\ input = [p \in Procs |-> ""]
    /\ now = [p \in Procs |-> NoTime]
    /\ path = [p \in Procs |-> ""]
    /\ entry = [p \in Procs |-> ""]
    /\ existing = [p \in Procs |-> ""]
    /\ newContent = [p \in Procs |-> ""]
    /\ code = [p \in Procs |-> ""]
    /\ calls = [p \in Procs |-> <<>>]
    /\ steps = [p \in Procs |-> <<>>]
    /\ exitCode = [p \in Procs |-> -1]
    /\ stdout = [p \in Procs |-> <<>>]
    /\ stderr = [p \in Procs |-> <<>>]

\* one run of one shell, in any environment, with any config file, on a
\* server that may hold a document for the first day
Init ==
    /\ InitRun
    /\ \E d \in InitialDocs :
         remote = [q \in Paths |-> IF q = FirstPath THEN d ELSE NoDoc]
    /\ configFile \in ConfigFiles
    /\ \E e \in Envs : env = [p \in Procs |-> IF p = "sh1" THEN e ELSE EmptyEnv]
    /\ runsLeft = [p \in Procs |-> IF p = "sh1" THEN 1 ELSE 0]
    /\ call = NoCall

\* ---------------------------------------------------------------------
\* A run of the append flow (main)
\* ---------------------------------------------------------------------

\* the error printed and a return from main in place of os.Exit(1)
FatalReturn(p, e) ==
    /\ stderr' = [stderr EXCEPT ![p] = Append(@, e)]
    /\ exitCode' = [exitCode EXCEPT ![p] = 0]
    /\ pc' = [pc EXCEPT ![p] = "exited"]

\* fmt.Fprintln(os.Stderr, e); os.Exit(1)
Fatal(p, e) ==
    /\ stderr' = [stderr EXCEPT ![p] = Append(@, e)]
    /\ exitCode' = [exitCode EXCEPT ![p] = 1]
    /\ pc' = [pc EXCEPT ![p] = "exited"]

\* the shell starts the tool with one of the invocations. main: the auth
\* subcommand goes to runAuth; otherwise flag.Parse sets the option and
\* the positional arguments, or prints the usage and exits, with code 0
\* when the help was asked for and with code 2 for a flag that is not
\* defined.
StartWith(p, invocations) ==
    /\ pc[p] \in {"idle", "exited"}
    /\ runsLeft[p] > 0
    /\ runsLeft' = [runsLeft EXCEPT ![p] = @ - 1]
    /\ cfg' = [cfg EXCEPT ![p] = ZeroConfig]
    /\ token' = [token EXCEPT ![p] = ""]
    /\ input' = [input EXCEPT ![p] = ""]
    /\ now' = [now EXCEPT ![p] = NoTime]
    /\ path' = [path EXCEPT ![p] = ""]
    /\ entry' = [entry EXCEPT ![p] = ""]
    /\ existing' = [existing EXCEPT ![p] = ""]
    /\ newContent' = [newContent EXCEPT ![p] = ""]
    /\ code' = [code EXCEPT ![p] = ""]
    /\ calls' = [calls EXCEPT ![p] = <<>>]
    /\ steps' = [steps EXCEPT ![p] = <<>>]
    /\ stdout' = [stdout EXCEPT ![p] = <<>>]
    /\ \E iv \in invocations :
         LET parsed == flagParse(iv[1]) IN
         /\ argv' = [argv EXCEPT ![p] = iv[1]]
         /\ stdin' = [stdin EXCEPT ![p] = iv[2]]
         /\ IF IsAuth(iv[1])
            THEN /\ noTimestamp' = [noTimestamp EXCEPT ![p] = FALSE]
                 /\ args' = [args EXCEPT ![p] = <<>>]
                 /\ exitCode' = [exitCode EXCEPT ![p] = -1]
                 /\ stderr' = [stderr EXCEPT ![p] = <<>>]
                 /\ pc' = [pc EXCEPT ![p] = "authLoadConfig"]
            ELSE IF parsed.err = "help"
            THEN /\ noTimestamp' = [noTimestamp EXCEPT ![p] = FALSE]
                 /\ args' = [args EXCEPT ![p] = <<>>]
                 /\ exitCode' = [exitCode EXCEPT ![p] = 0]
                 /\ stderr' = [stderr EXCEPT ![p] =
                        <<Errorf("Usage of %s:\n", 0, "", <<>>)>>]
                 /\ pc' = [pc EXCEPT ![p] = "exited"]
            ELSE IF parsed.err # ""
            THEN /\ noTimestamp' = [noTimestamp EXCEPT ![p] = FALSE]
                 /\ args' = [args EXCEPT ![p] = <<>>]
                 /\ exitCode' = [exitCode EXCEPT ![p] = 2]
                 /\ stderr' = [stderr EXCEPT ![p] =
                        <<Errorf("flag provided but not defined: -%s", 0, "", <<>>),
                          Errorf("Usage of %s:\n", 0, "", <<>>)>>]
                 /\ pc' = [pc EXCEPT ![p] = "exited"]
            ELSE /\ noTimestamp' = [noTimestamp EXCEPT ![p] = parsed.noTimestamp]
                 /\ args' = [args EXCEPT ![p] = parsed.args]
                 /\ exitCode' = [exitCode EXCEPT ![p] = -1]
                 /\ stderr' = [stderr EXCEPT ![p] = <<>>]
                 /\ pc' = [pc EXCEPT ![p] = "loadConfig"]
    /\ UNCHANGED world

\* a run of either flow
Start(p) == StartWith(p, Invocations)

\* a run of the append flow
StartAppend(p) == StartWith(p, AppendInvocations)

\* main reading the input right after the config, before it has a token
LoadConfigThenReadInput(p) ==
    /\ pc[p] = "loadConfig"
    /\ cfg' = [cfg EXCEPT ![p] = loadConfig(configFile, env[p])]
    /\ pc' = [pc EXCEPT ![p] = "readInput"]
    /\ steps' = [steps EXCEPT ![p] = Append(@, "loadConfig")]
    /\ UNCHANGED <<world, runsLeft, argv, code, stdin, noTimestamp, args, token, input,
                   now, path, entry, existing, newContent, calls, exitCode,
                   stdout, stderr>>

\* cfg, err := loadConfig(configPath); err is always nil
LoadConfig(p) ==
    /\ pc[p] = "loadConfig"
    /\ cfg' = [cfg EXCEPT ![p] = loadConfig(configFile, env[p])]
    /\ pc' = [pc EXCEPT ![p] = "resolveToken"]
    /\ steps' = [steps EXCEPT ![p] = Append(@, "loadConfig")]
    /\ UNCHANGED <<world, runsLeft, argv, code, stdin, noTimestamp, args, token, input,
                   now, path, entry, existing, newContent, calls, exitCode,
                   stdout, stderr>>

\* the append flow writing its Config back after a refresh
ResolveTokenSavesConfig(p) ==
    /\ pc[p] = "resolveToken"
    /\ \E resp \in TokenResponses :
         LET r == resolveToken(cfg[p], env[p].DROPBOX_TOKEN, resp) IN
         /\ calls' = [calls EXCEPT ![p] =
                @ \o [i \in 1..Len(r.calls) |->
                         [req |-> r.calls[i], resp |-> resp,
                          err |-> refreshAccessToken(resp).err]]]
         /\ steps' = [steps EXCEPT ![p] = Append(@, "resolveToken")]
         /\ IF r.err # Nil
            THEN /\ Fatal(p, r.err)
                 /\ UNCHANGED <<token, configFile>>
            ELSE /\ token' = [token EXCEPT ![p] = r.token]
                 /\ configFile' = IF Len(r.calls) > 0
                                  THEN saveConfig(configFile, cfg[p], "written").file
                                  ELSE configFile
                 /\ pc' = [pc EXCEPT ![p] = "readInput"]
                 /\ UNCHANGED <<exitCode, stderr>>
    /\ UNCHANGED <<remote, writes, log, env, call, runsLeft, argv, code, stdin,
                   noTimestamp, args, cfg, input,
                   now, path, entry, existing, newContent, stdout>>

\* token, err := resolveToken(cfg)
ResolveToken(p) ==
    /\ pc[p] = "resolveToken"
    /\ \E resp \in TokenResponses :
         LET r == resolveToken(cfg[p], env[p].DROPBOX_TOKEN, resp) IN
         /\ calls' = [calls EXCEPT ![p] =
                @ \o [i \in 1..Len(r.calls) |->
                         [req |-> r.calls[i], resp |-> resp,
                          err |-> refreshAccessToken(resp).err]]]
         /\ steps' = [steps EXCEPT ![p] = Append(@, "resolveToken")]
         /\ IF r.err # Nil
            THEN /\ Fatal(p, r.err)
                 /\ UNCHANGED token
            ELSE /\ token' = [token EXCEPT ![p] = r.token]
                 /\ pc' = [pc EXCEPT ![p] = "readInput"]
                 /\ UNCHANGED <<exitCode, stderr>>
    /\ UNCHANGED <<world, runsLeft, argv, code, stdin, noTimestamp, args, cfg, input,
                   now, path, entry, existing, newContent, stdout>>

\* readInput reading standard input whatever it is: at a terminal where
\* nothing is typed the read does not return
ReadInputWaitsAtTerminal(p) ==
    /\ pc[p] = "readInput"
    /\ ~(Len(args[p]) = 0 /\ stdin[p].kind = "tty")
    /\ LET r == readInput(args[p], stdin[p]) IN
         /\ stdin' = [stdin EXCEPT ![p].consumed = r.consumed]
         /\ steps' = [steps EXCEPT ![p] = Append(@, "readInput")]
         /\ IF r.panic
            THEN /\ exitCode' = [exitCode EXCEPT ![p] = 2]
                 /\ stderr' = [stderr EXCEPT ![p] =
                        Append(@, Errorf("panic: runtime error: invalid memory address or nil pointer dereference",
                                         0, "", <<>>))]
                 /\ pc' = [pc EXCEPT ![p] = "exited"]
                 /\ UNCHANGED input
            ELSE IF r.err # Nil
            THEN /\ Fatal(p, r.err)
                 /\ UNCHANGED input
            ELSE /\ input' = [input EXCEPT ![p] = r.text]
                 /\ pc' = [pc EXCEPT ![p] = "formatEntry"]
                 /\ UNCHANGED <<exitCode, stderr>>
    /\ UNCHANGED <<world, runsLeft, argv, code, noTimestamp, args, cfg, token,
                   now, path, entry, existing, newContent, calls, stdout>>

\* input, err := readInput(flag.Args())
ReadInput(p) ==
    /\ pc[p] = "readInput"
    /\ LET r == readInput(args[p], stdin[p]) IN
         /\ stdin' = [stdin EXCEPT ![p].consumed = r.consumed]
         /\ steps' = [steps EXCEPT ![p] = Append(@, "readInput")]
         /\ IF r.panic
            THEN /\ exitCode' = [exitCode EXCEPT ![p] = 2]
                 /\ stderr' = [stderr EXCEPT ![p] =
                        Append(@, Errorf("panic: runtime error: invalid memory address or nil pointer dereference",
                                         0, "", <<>>))]
                 /\ pc' = [pc EXCEPT ![p] = "exited"]
                 /\ UNCHANGED input
            ELSE IF r.err # Nil
            THEN /\ Fatal(p, r.err)
                 /\ UNCHANGED input
            ELSE /\ input' = [input EXCEPT ![p] = r.text]
                 /\ pc' = [pc EXCEPT ![p] = "formatEntry"]
                 /\ UNCHANGED <<exitCode, stderr>>
    /\ UNCHANGED <<world, runsLeft, argv, code, noTimestamp, args, cfg, token,
                   now, path, entry, existing, newContent, calls, stdout>>

\* now := time.Now(); path := resolvePath(now);
\* entry := formatEntry(now, input, *noTimestamp)
FormatEntry(p) ==
    /\ pc[p] = "formatEntry"
    /\ \E t \in Times :
         /\ now' = [now EXCEPT ![p] = t]
         /\ path' = [path EXCEPT ![p] = resolvePath(t)]
         /\ entry' = [entry EXCEPT ![p] = formatEntry(t, input[p], noTimestamp[p])]
    /\ pc' = [pc EXCEPT ![p] = "download"]
    /\ steps' = [steps EXCEPT ![p] = Append(@, "formatEntry")]
    /\ UNCHANGED <<world, runsLeft, argv, code, stdin, noTimestamp, args, cfg, token,
                   input, existing, newContent, calls, exitCode, stdout,
                   stderr>>

\* the download whose error main does not look at
DownloadExistingContinues(p) ==
    /\ pc[p] = "download"
    /\ \E resp \in {ServerDownload(remote[path[p]])} \cup DownloadFaults :
         LET r == Download(resp) IN
         /\ calls' = [calls EXCEPT ![p] =
                Append(@, [req |-> DownloadRequest(token[p], path[p]),
                           resp |-> resp, err |-> r.err])]
         /\ steps' = [steps EXCEPT ![p] = Append(@, "Download")]
         /\ existing' = [existing EXCEPT ![p] = r.content]
         /\ pc' = [pc EXCEPT ![p] = "upload"]
         /\ UNCHANGED <<exitCode, stderr>>
    /\ UNCHANGED <<world, runsLeft, argv, code, stdin, noTimestamp, args, cfg, token,
                   input, now, path, entry, newContent, stdout>>

\* existing, err := client.Download(path)
DownloadExisting(p) ==
    /\ pc[p] = "download"
    /\ \E resp \in {ServerDownload(remote[path[p]])} \cup DownloadFaults :
         LET r == Download(resp) IN
         /\ calls' = [calls EXCEPT ![p] =
                Append(@, [req |-> DownloadRequest(token[p], path[p]),
                           resp |-> resp, err |-> r.err])]
         /\ steps' = [steps EXCEPT ![p] = Append(@, "Download")]
         /\ IF r.err # Nil
            THEN /\ Fatal(p, Errorf("error downloading: %v\n", 0, "", <<r.err>>))
                 /\ UNCHANGED existing
            ELSE /\ existing' = [existing EXCEPT ![p] = r.content]
                 /\ pc' = [pc EXCEPT ![p] = "upload"]
                 /\ UNCHANGED <<exitCode, stderr>>
    /\ UNCHANGED <<world, runsLeft, argv, code, stdin, noTimestamp, args, cfg, token,
                   input, now, path, entry, newContent, stdout>>

\* the upload of the entry joined to what the server holds when the
\* request arrives, in place of what the run downloaded
UploadNewContentOntoCurrent(p) ==
    /\ pc[p] = "upload"
    /\ LET content == appendContent(IF remote[path[p]].exists
                                    THEN remote[path[p]].content ELSE "",
                                    entry[p])
           req == UploadRequest(token[p], path[p], content)
       IN
         /\ newContent' = [newContent EXCEPT ![p] = content]
         /\ \E o \in UploadOutcomes :
              /\ calls' = [calls EXCEPT ![p] =
                     Append(@, [req |-> req, resp |-> o.resp, err |-> Upload(o.resp)])]
              /\ steps' = [steps EXCEPT ![p] = Append(@, "Upload")]
              /\ IF o.applied
                 THEN /\ remote' = [remote EXCEPT ![req.arg.path] = DocOf(req.body)]
                      /\ writes' = Append(writes, [path |-> req.arg.path, content |-> req.body])
                 ELSE UNCHANGED <<remote, writes>>
              /\ IF Upload(o.resp) # Nil
                 THEN Fatal(p, Errorf("error uploading: %v\n", 0, "", <<Upload(o.resp)>>))
                 ELSE /\ pc' = [pc EXCEPT ![p] = "report"]
                      /\ UNCHANGED <<exitCode, stderr>>
    /\ UNCHANGED <<log, outside, runsLeft, argv, code, stdin, noTimestamp, args,
                   cfg, token, input, now, path, entry, existing, stdout>>

\* the upload whose error main does not look at
UploadNewContentIgnoresError(p) ==
    /\ pc[p] = "upload"
    /\ LET content == appendContent(existing[p], entry[p])
           req == UploadRequest(token[p], path[p], content)
       IN
         /\ newContent' = [newContent EXCEPT ![p] = content]
         /\ \E o \in UploadOutcomes :
              /\ calls' = [calls EXCEPT ![p] =
                     Append(@, [req |-> req, resp |-> o.resp, err |-> Upload(o.resp)])]
              /\ steps' = [steps EXCEPT ![p] = Append(@, "Upload")]
              /\ IF o.applied
                 THEN /\ remote' = [remote EXCEPT ![req.arg.path] = DocOf(req.body)]
                      /\ writes' = Append(writes, [path |-> req.arg.path, content |-> req.body])
                 ELSE UNCHANGED <<remote, writes>>
              /\ pc' = [pc EXCEPT ![p] = "report"]
              /\ UNCHANGED <<exitCode, stderr>>
    /\ UNCHANGED <<log, outside, runsLeft, argv, code, stdin, noTimestamp, args,
                   cfg, token, input, now, path, entry, existing, stdout>>

\* newContent := appendContent(existing, entry);
\* err := client.Upload(path, newContent)
UploadNewContent(p) ==
    /\ pc[p] = "upload"
    /\ LET content == appendContent(existing[p], entry[p])
           req == UploadRequest(token[p], path[p], content)
       IN
         /\ newContent' = [newContent EXCEPT ![p] = content]
         /\ \E o \in UploadOutcomes :
              /\ calls' = [calls EXCEPT ![p] =
                     Append(@, [req |-> req, resp |-> o.resp, err |-> Upload(o.resp)])]
              /\ steps' = [steps EXCEPT ![p] = Append(@, "Upload")]
              /\ IF o.applied
                 THEN /\ remote' = [remote EXCEPT ![req.arg.path] = DocOf(req.body)]
                      /\ writes' = Append(writes, [path |-> req.arg.path, content |-> req.body])
                 ELSE UNCHANGED <<remote, writes>>
              /\ IF Upload(o.resp) # Nil
                 THEN Fatal(p, Errorf("error uploading: %v\n", 0, "", <<Upload(o.resp)>>))
                 ELSE /\ pc' = [pc EXCEPT ![p] = "report"]
                      /\ UNCHANGED <<exitCode, stderr>>
    /\ UNCHANGED <<log, outside, runsLeft, argv, code, stdin, noTimestamp, args,
                   cfg, token, input, now, path, entry, existing, stdout>>

\* fmt.Printf("Appended to %s\n", path), and main returns
ReportSuccess(p) ==
    /\ pc[p] = "report"
    /\ stdout' = [stdout EXCEPT ![p] = Append(@, "Appended to " \o path[p] \o "\n")]
    /\ exitCode' = [exitCode EXCEPT ![p] = 0]
    /\ log' = Append(log, [path |-> path[p], entry |-> entry[p]])
    /\ pc' = [pc EXCEPT ![p] = "exited"]
    /\ steps' = [steps EXCEPT ![p] = Append(@, "report")]
    /\ UNCHANGED <<remote, writes, outside, runsLeft, argv, stdin, locals,
                   calls, stderr>>

\* ---------------------------------------------------------------------
\* A run of the auth flow (runAuth)
\* ---------------------------------------------------------------------

\* what an auth action leaves alone
authOthers == <<remote, writes, log, env, call, runsLeft, argv, noTimestamp,
                args, token, input, now, path, entry, existing, newContent>>

\* the auth flow stopping only when both the app key and the app secret
\* are missing
AuthLoadConfigBothMissing(p) ==
    /\ pc[p] = "authLoadConfig"
    /\ LET loaded == loadConfig(configFile, env[p]) IN
         /\ cfg' = [cfg EXCEPT ![p] = loaded]
         /\ IF loaded.AppKey = "" /\ loaded.AppSecret = ""
            THEN /\ stderr' = [stderr EXCEPT ![p] =
                        @ \o <<Errorf("app_key and app_secret required.", 0, "", <<>>),
                               Errorf("Set in %s or via DROPBOX_APP_KEY and DROPBOX_APP_SECRET env vars.\n",
                                      0, "", <<>>)>>]
                 /\ exitCode' = [exitCode EXCEPT ![p] = 1]
                 /\ pc' = [pc EXCEPT ![p] = "exited"]
            ELSE /\ pc' = [pc EXCEPT ![p] = "authPrompt"]
                 /\ UNCHANGED <<exitCode, stderr>>
    /\ steps' = [steps EXCEPT ![p] = Append(@, "loadConfig")]
    /\ UNCHANGED <<authOthers, configFile, stdin, code, calls, stdout>>

\* cfg, err := loadConfig(configPath), and the test of cfg.AppKey and
\* cfg.AppSecret
AuthLoadConfig(p) ==
    /\ pc[p] = "authLoadConfig"
    /\ LET loaded == loadConfig(configFile, env[p]) IN
         /\ cfg' = [cfg EXCEPT ![p] = loaded]
         /\ IF loaded.AppKey = "" \/ loaded.AppSecret = ""
            THEN /\ stderr' = [stderr EXCEPT ![p] =
                        @ \o <<Errorf("app_key and app_secret required.", 0, "", <<>>),
                               Errorf("Set in %s or via DROPBOX_APP_KEY and DROPBOX_APP_SECRET env vars.\n",
                                      0, "", <<>>)>>]
                 /\ exitCode' = [exitCode EXCEPT ![p] = 1]
                 /\ pc' = [pc EXCEPT ![p] = "exited"]
            ELSE /\ pc' = [pc EXCEPT ![p] = "authPrompt"]
                 /\ UNCHANGED <<exitCode, stderr>>
    /\ steps' = [steps EXCEPT ![p] = Append(@, "loadConfig")]
    /\ UNCHANGED <<authOthers, configFile, stdin, code, calls, stdout>>

\* the instructions, the authorization URL and the prompt
AuthPrompt(p) ==
    /\ pc[p] = "authPrompt"
    /\ stdout' = [stdout EXCEPT ![p] =
           @ \o <<"1. Open this URL in your browser:\n", "\n",
                  "   " \o authorizeURL(cfg[p].AppKey) \o "\n", "\n",
                  "2. Enter the authorization code: ">>]
    /\ pc' = [pc EXCEPT ![p] = "authScan"]
    /\ steps' = [steps EXCEPT ![p] = Append(@, "prompt")]
    /\ UNCHANGED <<authOthers, configFile, stdin, cfg, code, calls, exitCode,
                   stderr>>

\* scanner.Scan(); code := strings.TrimSpace(scanner.Text())
AuthScan(p) ==
    /\ pc[p] = "authScan"
    /\ stdin' = [stdin EXCEPT ![p].consumed = TRUE]
    /\ code' = [code EXCEPT ![p] = TrimSpace(ScanText(stdin[p]))]
    /\ steps' = [steps EXCEPT ![p] = Append(@, "scan")]
    /\ IF TrimSpace(ScanText(stdin[p])) = ""
       THEN Fatal(p, Errorf("no code entered", 0, "", <<>>))
       ELSE /\ pc' = [pc EXCEPT ![p] = "authExchange"]
            /\ UNCHANGED <<exitCode, stderr>>
    /\ UNCHANGED <<authOthers, configFile, cfg, calls, stdout>>

\* the exchange refusing an answer without a refresh token
AuthExchangeChecksToken(p) ==
    /\ pc[p] = "authExchange"
    /\ \E resp \in ExchangeResponses :
         LET r == exchangeCode(resp) IN
         /\ calls' = [calls EXCEPT ![p] =
                Append(@, [req |-> ExchangeRequest(defaultTokenURL, cfg[p].AppKey,
                                                   cfg[p].AppSecret, code[p]),
                           resp |-> resp, err |-> r.err])]
         /\ IF r.err # Nil
            THEN /\ Fatal(p, Errorf("error: %v\n", 0, "", <<r.err>>))
                 /\ UNCHANGED cfg
            ELSE IF r.result.RefreshToken = ""
            THEN /\ Fatal(p, Errorf("error: no refresh token returned", 0, "", <<>>))
                 /\ UNCHANGED cfg
            ELSE /\ cfg' = [cfg EXCEPT ![p].RefreshToken = r.result.RefreshToken]
                 /\ pc' = [pc EXCEPT ![p] = "authSave"]
                 /\ UNCHANGED <<exitCode, stderr>>
    /\ steps' = [steps EXCEPT ![p] = Append(@, "exchangeCode")]
    /\ UNCHANGED <<authOthers, configFile, stdin, code, stdout>>

\* the exchange without the assignment to cfg.RefreshToken
AuthExchangeKeepsToken(p) ==
    /\ pc[p] = "authExchange"
    /\ \E resp \in ExchangeResponses :
         LET r == exchangeCode(resp) IN
         /\ calls' = [calls EXCEPT ![p] =
                Append(@, [req |-> ExchangeRequest(defaultTokenURL, cfg[p].AppKey,
                                                   cfg[p].AppSecret, code[p]),
                           resp |-> resp, err |-> r.err])]
         /\ IF r.err # Nil
            THEN Fatal(p, Errorf("error: %v\n", 0, "", <<r.err>>))
            ELSE /\ pc' = [pc EXCEPT ![p] = "authSave"]
                 /\ UNCHANGED <<exitCode, stderr>>
    /\ steps' = [steps EXCEPT ![p] = Append(@, "exchangeCode")]
    /\ UNCHANGED <<authOthers, configFile, stdin, cfg, code, stdout>>

\* result, err := exchangeCode(defaultTokenURL, cfg.AppKey, cfg.AppSecret,
\* code); cfg.RefreshToken = result.RefreshToken
AuthExchange(p) ==
    /\ pc[p] = "authExchange"
    /\ \E resp \in ExchangeResponses :
         LET r == exchangeCode(resp) IN
         /\ calls' = [calls EXCEPT ![p] =
                Append(@, [req |-> ExchangeRequest(defaultTokenURL, cfg[p].AppKey,
                                                   cfg[p].AppSecret, code[p]),
                           resp |-> resp, err |-> r.err])]
         /\ IF r.err # Nil
            THEN /\ Fatal(p, Errorf("error: %v\n", 0, "", <<r.err>>))
                 /\ UNCHANGED cfg
            ELSE /\ cfg' = [cfg EXCEPT ![p].RefreshToken = r.result.RefreshToken]
                 /\ pc' = [pc EXCEPT ![p] = "authSave"]
                 /\ UNCHANGED <<exitCode, stderr>>
    /\ steps' = [steps EXCEPT ![p] = Append(@, "exchangeCode")]
    /\ UNCHANGED <<authOthers, configFile, stdin, code, stdout>>

\* the save of the file's own app key and app secret, without the values
\* of the environment
AuthSaveFileValues(p) ==
    /\ pc[p] = "authSave"
    /\ \E how \in SaveOutcomes :
         LET r == saveConfig(configFile,
                             [loadConfig(configFile, EmptyEnv)
                                 EXCEPT !.RefreshToken = cfg[p].RefreshToken],
                             how)
         IN
         /\ configFile' = r.file
         /\ IF r.err # Nil
            THEN Fatal(p, Errorf("error saving config: %v\n", 0, "", <<r.err>>))
            ELSE /\ pc' = [pc EXCEPT ![p] = "authReport"]
                 /\ UNCHANGED <<exitCode, stderr>>
    /\ steps' = [steps EXCEPT ![p] = Append(@, "saveConfig")]
    /\ UNCHANGED <<authOthers, stdin, cfg, code, calls, stdout>>

\* err := saveConfig(configPath, cfg)
AuthSave(p) ==
    /\ pc[p] = "authSave"
    /\ \E how \in SaveOutcomes :
         LET r == saveConfig(configFile, cfg[p], how) IN
         /\ configFile' = r.file
         /\ IF r.err # Nil
            THEN Fatal(p, Errorf("error saving config: %v\n", 0, "", <<r.err>>))
            ELSE /\ pc' = [pc EXCEPT ![p] = "authReport"]
                 /\ UNCHANGED <<exitCode, stderr>>
    /\ steps' = [steps EXCEPT ![p] = Append(@, "saveConfig")]
    /\ UNCHANGED <<authOthers, stdin, cfg, code, calls, stdout>>

\* fmt.Println("\nAuthentication successful! Refresh token saved."), and
\* main returns
AuthReport(p) ==
    /\ pc[p] = "authReport"
    /\ stdout' = [stdout EXCEPT ![p] =
           Append(@, "\nAuthentication successful! Refresh token saved.\n")]
    /\ exitCode' = [exitCode EXCEPT ![p] = 0]
    /\ pc' = [pc EXCEPT ![p] = "exited"]
    /\ steps' = [steps EXCEPT ![p] = Append(@, "report")]
    /\ UNCHANGED <<authOthers, configFile, stdin, cfg, code, calls, stderr>>

Next ==
    \E p \in Procs :
        \/ Start(p)
        \/ LoadConfig(p)
        \/ ResolveToken(p)
        \/ ReadInput(p)
        \/ FormatEntry(p)
        \/ DownloadExisting(p)
        \/ UploadNewContent(p)
        \/ ReportSuccess(p)
        \/ AuthLoadConfig(p)
        \/ AuthPrompt(p)
        \/ AuthScan(p)
        \/ AuthExchange(p)
        \/ AuthSave(p)
        \/ AuthReport(p)

Spec == Init /\ [][Next]_vars

\* ---------------------------------------------------------------------
\* Successive runs on one day's journal
\* ---------------------------------------------------------------------

\* the next statement of p's run, whichever it is
Continue(p) ==
    \/ LoadConfig(p)
    \/ ResolveToken(p)
    \/ ReadInput(p)
    \/ FormatEntry(p)
    \/ DownloadExisting(p)
    \/ UploadNewContent(p)
    \/ ReportSuccess(p)
    \/ AuthLoadConfig(p)
    \/ AuthPrompt(p)
    \/ AuthScan(p)
    \/ AuthExchange(p)
    \/ AuthSave(p)
    \/ AuthReport(p)

\* a run that has started keeps executing: the process is sequential and
\* every call it waits for (a request, a read of standard input, a file
\* operation) returns, so a statement that can execute does execute.
\* When a shell starts a run is left to the user.
SpecLive == Init /\ [][Next]_vars /\ \A p \in Procs : WF_vars(Continue(p))

\* one shell with a direct token starts MaxRuns runs, one after the other,
\* on a server that holds no document
InitJournal ==
    /\ InitRun
    /\ remote = [q \in Paths |-> NoDoc]
    /\ configFile = NoFile
    /\ env = [p \in Procs |-> DirectTokenEnv]
    /\ runsLeft = [p \in Procs |-> IF p = "sh1" THEN MaxRuns ELSE 0]
    /\ call = NoCall

\* the runs of the append flow
NextJournal ==
    \E p \in Procs :
        \/ StartAppend(p)
        \/ LoadConfig(p)
        \/ ResolveToken(p)
        \/ ReadInput(p)
        \/ FormatEntry(p)
        \/ DownloadExisting(p)
        \/ UploadNewContent(p)
        \/ ReportSuccess(p)

SpecJournal == InitJournal /\ [][NextJournal]_vars

\* ---------------------------------------------------------------------
\* The pure functions, applied to bounded inputs
\* ---------------------------------------------------------------------

\* ---------------------------------------------------------------------
\* An authorization followed by an append
\* ---------------------------------------------------------------------

\* the auth subcommand at a terminal, with a code typed or nothing typed
SetupAuthInvocations ==
    {<<<<"auth">>, StdinOf("tty", " code1 \n", FALSE)>>, <<<<"auth">>, StdinTTY>>}

\* an append of one argument at a terminal
SetupAppendInvocations == {<<<<"a">>, StdinTTY>>}

\* the user authorizes in one shell and, when that run has ended, appends
\* in a second shell that has the same environment; the server holds no
\* document
InitSetup ==
    /\ InitRun
    /\ remote = [q \in Paths |-> NoDoc]
    /\ configFile \in ConfigFiles
    /\ \E e \in Envs : env = [p \in Procs |-> e]
    /\ runsLeft = [p \in Procs |-> 1]
    /\ call = NoCall

\* the run of the auth subcommand, in the first shell
StartAuth(p) ==
    /\ p = "sh1"
    /\ StartWith(p, SetupAuthInvocations)

\* the append run, in the second shell, after the auth run has ended
StartAppendAfterAuth(p) ==
    /\ p = "sh2"
    /\ pc["sh1"] = "exited"
    /\ StartWith(p, SetupAppendInvocations)

NextSetup ==
    \E p \in Procs :
        \/ StartAuth(p)
        \/ StartAppendAfterAuth(p)
        \/ LoadConfig(p)
        \/ ResolveToken(p)
        \/ ReadInput(p)
        \/ FormatEntry(p)
        \/ DownloadExisting(p)
        \/ UploadNewContent(p)
        \/ ReportSuccess(p)
        \/ AuthLoadConfig(p)
        \/ AuthPrompt(p)
        \/ AuthScan(p)
        \/ AuthExchange(p)
        \/ AuthSave(p)
        \/ AuthReport(p)

SpecSetup == InitSetup /\ [][NextSetup]_vars

\* ---------------------------------------------------------------------
\* Two shells appending at the same time
\* ---------------------------------------------------------------------

\* appends of arguments at a terminal
RaceInvocations == {<<<<"a">>, StdinTTY>>, <<<<"b", "c">>, StdinTTY>>}

\* two shells with a direct token, each starting one run, on a server
\* that may hold a document for the first day; nothing orders the steps of
\* the two processes
InitRace ==
    /\ InitRun
    /\ \E d \in {NoDoc, DocOf("x")} :
         remote = [q \in Paths |-> IF q = FirstPath THEN d ELSE NoDoc]
    /\ configFile = NoFile
    /\ env = [p \in Procs |-> DirectTokenEnv]
    /\ runsLeft = [p \in Procs |-> 1]
    /\ call = NoCall

\* a run of the append flow in either shell
StartRace(p) == StartWith(p, RaceInvocations)

NextRace ==
    \E p \in Procs :
        \/ StartRace(p)
        \/ LoadConfig(p)
        \/ ResolveToken(p)
        \/ ReadInput(p)
        \/ FormatEntry(p)
        \/ DownloadExisting(p)
        \/ UploadNewContent(p)
        \/ ReportSuccess(p)

SpecRace == InitRace /\ [][NextRace]_vars

\* the strings of at most n characters over "a", newline and space
RECURSIVE StringsUpTo(_)
StringsUpTo(n) ==
    IF n = 0 THEN {""}
    ELSE LET shorter == StringsUpTo(n - 1) IN
         shorter \cup {s \o c : s \in shorter, c \in {"a", "\n", " "}}

\* the applications of appendContent to bounded arguments, not yet
\* evaluated
AppendContentApplications ==
    {[fn |-> "appendContent", existing |-> a, entry |-> b,
      done |-> FALSE, result |-> ""] :
        a \in StringsUpTo(MaxStrLen), b \in StringsUpTo(MaxStrLen)}

\* the environments without a direct token
ConfigEnvs == {e \in Envs : e.DROPBOX_TOKEN = ""}

\* the applications of loadConfig to a config file and an environment
LoadConfigApplications ==
    {[fn |-> "loadConfig", file |-> f, env |-> e,
      done |-> FALSE, result |-> ZeroConfig, err |-> Nil] :
        f \in ConfigFiles, e \in ConfigEnvs}

\* values of a field of a Config: empty, plain, with characters that JSON
\* escapes, and with a byte that is not valid UTF-8
ConfigStrings == {"", "k1", "a\"b\\c", "l1\nl2<&", "x^y"}

\* the applications of saveConfig to a Config, each followed by a
\* loadConfig of the same path in an environment
SaveConfigApplications ==
    {[fn |-> "saveConfig", config |-> [AppKey |-> k, AppSecret |-> sec, RefreshToken |-> r],
      how |-> h, env |-> e, done |-> FALSE, err |-> Nil, result |-> ZeroConfig] :
        k \in ConfigStrings, sec \in ConfigStrings, r \in ConfigStrings,
        h \in SaveOutcomes,
        e \in {EmptyEnv, [EmptyEnv EXCEPT !.DROPBOX_APP_KEY = "env_key"]}}

\* times of day: midnight, a morning with one-digit fields, an afternoon
\* and the last second of the day
ClockTimes ==
    {[hour |-> 0, minute |-> 0, second |-> 0],
     [hour |-> 9, minute |-> 5, second |-> 7],
     [hour |-> 14, minute |-> 30, second |-> 45],
     [hour |-> 23, minute |-> 59, second |-> 59]}

\* dates: years of fewer than four digits and of four, months and days of
\* one digit and of two
Dates ==
    {d \in [year : {987, 2024, 2025}, month : {1, 9, 10, 12}, day : {1, 9, 15, 31}] :
        d.month = 9 => d.day <= 30}

\* the time.Time of a date and a time of day
TimeOf(d, c) ==
    [year |-> d.year, month |-> d.month, day |-> d.day,
     hour |-> c.hour, minute |-> c.minute, second |-> c.second]

\* the applications of formatEntry to a time, a text and the option
FormatEntryApplications ==
    {[fn |-> "formatEntry", t |-> TimeOf([year |-> 2025, month |-> 1, day |-> 15], c),
      text |-> x, noTimestamp |-> b, done |-> FALSE, result |-> ""] :
        c \in ClockTimes, x \in StringsUpTo(MaxStrLen), b \in BOOLEAN}

\* the applications of resolvePath to two times of one date
ResolvePathApplications ==
    {[fn |-> "resolvePath", t |-> TimeOf(d, c[1]), other |-> TimeOf(d, c[2]),
      done |-> FALSE, result |-> "", otherResult |-> ""] :
        d \in Dates, c \in ClockTimes \X ClockTimes}

\* the applications of exchangeCode and of refreshAccessToken to an
\* answer of the token endpoint
TokenApplications ==
    {[fn |-> f, resp |-> r, done |-> FALSE, result |-> NoTokens, err |-> Nil] :
        f \in {"exchangeCode", "refreshAccessToken"},
        r \in TokenResponses \cup ExchangeResponses}

Applications ==
    AppendContentApplications \cup LoadConfigApplications
        \cup SaveConfigApplications \cup FormatEntryApplications
        \cup ResolvePathApplications \cup TokenApplications

InitFn ==
    /\ InitRun
    /\ remote = [q \in Paths |-> NoDoc]
    /\ configFile = NoFile
    /\ env = [p \in Procs |-> EmptyEnv]
    /\ runsLeft = [p \in Procs |-> 0]
    /\ call \in Applications

\* result := appendContent(existing, entry)
CallAppendContent ==
    /\ call.fn = "appendContent"
    /\ ~call.done
    /\ call' = [call EXCEPT !.done = TRUE,
                            !.result = appendContent(call.existing, call.entry)]
    /\ UNCHANGED <<remote, writes, log, configFile, env, runsLeft, pc, argv,
                   stdin, locals, calls, steps, exitCode, stdout, stderr>>

\* cfg, err := loadConfig(path), in the environment call.env
CallLoadConfig ==
    /\ call.fn = "loadConfig"
    /\ ~call.done
    /\ call' = [call EXCEPT !.done = TRUE,
                            !.result = loadConfig(call.file, call.env),
                            !.err = Nil]
    /\ UNCHANGED <<remote, writes, log, configFile, env, runsLeft, pc, argv,
                   stdin, locals, calls, steps, exitCode, stdout, stderr>>

\* err := saveConfig(path, cfg); loaded, _ := loadConfig(path)
CallSaveThenLoad ==
    /\ call.fn = "saveConfig"
    /\ ~call.done
    /\ LET saved == saveConfig(configFile, call.config, call.how) IN
         /\ configFile' = saved.file
         /\ call' = [call EXCEPT !.done = TRUE,
                                 !.err = saved.err,
                                 !.result = loadConfig(saved.file, call.env)]
    /\ UNCHANGED <<remote, writes, log, env, runsLeft, pc, argv,
                   stdin, locals, calls, steps, exitCode, stdout, stderr>>

\* result := formatEntry(t, text, noTimestamp)
CallFormatEntry ==
    /\ call.fn = "formatEntry"
    /\ ~call.done
    /\ call' = [call EXCEPT !.done = TRUE,
                            !.result = formatEntry(call.t, call.text, call.noTimestamp)]
    /\ UNCHANGED <<remote, writes, log, configFile, env, runsLeft, pc, argv,
                   stdin, locals, calls, steps, exitCode, stdout, stderr>>

\* result := resolvePath(t); otherResult := resolvePath(other)
CallResolvePath ==
    /\ call.fn = "resolvePath"
    /\ ~call.done
    /\ call' = [call EXCEPT !.done = TRUE,
                            !.result = resolvePath(call.t),
                            !.otherResult = resolvePath(call.other)]
    /\ UNCHANGED <<remote, writes, log, configFile, env, runsLeft, pc, argv,
                   stdin, locals, calls, steps, exitCode, stdout, stderr>>

\* result, err := exchangeCode(tokenURL, appKey, appSecret, code)
CallExchangeCode ==
    /\ call.fn = "exchangeCode"
    /\ ~call.done
    /\ call' = [call EXCEPT !.done = TRUE,
                            !.result = exchangeCode(call.resp).result,
                            !.err = exchangeCode(call.resp).err]
    /\ UNCHANGED <<remote, writes, log, configFile, env, runsLeft, pc, argv,
                   stdin, locals, calls, steps, exitCode, stdout, stderr>>

\* token, err := refreshAccessToken(tokenURL, appKey, appSecret,
\* refreshToken); the one string it returns is the access token
CallRefreshAccessToken ==
    /\ call.fn = "refreshAccessToken"
    /\ ~call.done
    /\ call' = [call EXCEPT !.done = TRUE,
                            !.result = [NoTokens EXCEPT !.AccessToken =
                                            refreshAccessToken(call.resp).token],
                            !.err = refreshAccessToken(call.resp).err]
    /\ UNCHANGED <<remote, writes, log, configFile, env, runsLeft, pc, argv,
                   stdin, locals, calls, steps, exitCode, stdout, stderr>>

NextFn ==
    \/ CallAppendContent
    \/ CallLoadConfig
    \/ CallSaveThenLoad
    \/ CallFormatEntry
    \/ CallResolvePath
    \/ CallExchangeCode
    \/ CallRefreshAccessToken

SpecFn == InitFn /\ [][NextFn]_vars

\* ---------------------------------------------------------------------
\* Properties
\* ---------------------------------------------------------------------

\* the requests of p's run to one endpoint, with their responses
CallsTo(p, endpoint) ==
    SelectSeq(calls[p], LAMBDA x : x.req.endpoint = endpoint)

TokenCalls(p) == CallsTo(p, defaultTokenURL)

Downloads(p) == CallsTo(p, "/2/files/download")

Uploads(p) == CallsTo(p, "/2/files/upload")

\* p's run has executed the step
Did(p, step) == \E i \in 1..Len(steps[p]) : steps[p][i] = step

\* p's run is one of the auth flow
IsAuthRun(p) == IsAuth(argv[p])

\* p's run is one of the append flow: not the auth subcommand, and a
\* command line that flag.Parse accepts
IsAppendRun(p) == ~IsAuth(argv[p]) /\ flagParse(argv[p]).err = ""

\* the response is the "no document yet" signal
IsNotFound(resp) ==
    /\ resp.sent
    /\ resp.read
    /\ resp.status = 409
    /\ Contains(JSONString(resp.body, "error_summary"), "not_found")

\* the response is a complete 200
IsOK(resp) == resp.sent /\ resp.read /\ resp.status = 200

\* the error tells the user to run the authorization flow
TellsToAuthorize(e) == Contains(e.fmt, "run: dropbox-appender auth")

\* the entries of the successful runs on path q, joined by one newline
RECURSIVE JournalOf(_)
JournalOf(entries) ==
    IF Len(entries) = 0 THEN ""
    ELSE IF Len(entries) = 1 THEN entries[1].entry
    ELSE JournalOf(SubSeq(entries, 1, Len(entries) - 1))
             \o "\n" \o entries[Len(entries)].entry

\* the arguments with one space between consecutive ones
RECURSIVE SpaceSeparated(_)
SpaceSeparated(arglist) ==
    IF Len(arglist) = 1 THEN arglist[1]
    ELSE SpaceSeparated(SubSeq(arglist, 1, Len(arglist) - 1))
             \o " " \o arglist[Len(arglist)]

\* C1: in every successful append run the content uploaded, which is the
\* document afterwards, is the downloaded content, one newline and the
\* newly formatted entry when the downloaded content is not empty, and
\* exactly the newly formatted entry when it is empty.
C1_UploadIsDownloadThenEntry ==
    \A p \in Procs :
        (IsAppendRun(p) /\ exitCode[p] = 0) =>
            LET dl == Downloads(p)[1]
                ul == Uploads(p)[1]
                downloaded == IF dl.resp.status = 200 THEN dl.resp.body.text ELSE ""
                formatted == formatEntry(now[p], input[p], noTimestamp[p])
            IN  /\ ul.req.body = IF downloaded = "" THEN formatted
                                 ELSE downloaded \o "\n" \o formatted
                /\ remote[ul.req.arg.path] = DocOf(ul.req.body)

\* a run that appended the 14:30:45 entry to the morning note
C1_Witness ==
    \E p \in Procs :
        /\ IsAppendRun(p)
        /\ exitCode[p] = 0
        /\ Downloads(p)[1].resp.body.text = "### 10:00:00\nmorning note\n"
        /\ Uploads(p)[1].req.body = "### 10:00:00\nmorning note\n\n### 14:30:45\nb c\n"

\* C2: starting without documents, after a sequence of successful runs
\* that do not overlap, each document is the entries of the runs on its
\* path, in run order, with one newline between consecutive entries and
\* none before the first; a path without a run has no document.
C2_JournalIsEntriesInRunOrder ==
    Len(writes) = Len(log) =>
        \A q \in Paths :
            LET entries == SelectSeq(log, LAMBDA r : r.path = q) IN
            remote[q] = IF Len(entries) = 0 THEN NoDoc
                        ELSE DocOf(JournalOf(entries))

\* two successful runs on the same day
C2_Witness ==
    /\ Len(log) = 2
    /\ Len(writes) = 2
    /\ log[1].path = log[2].path
    /\ remote[log[1].path].content = "### 14:30:45\na\n\n### 09:00:07\nb c\n"

\* C3: a download answered 409 with an error_summary containing
\* "not_found" returns the empty string and no error; the run goes on to
\* upload, and when it succeeds the document is the entry.
C3_NotFoundIsEmptyDocument ==
    \A p \in Procs :
        \A i \in 1..Len(calls[p]) :
            (calls[p][i].req.endpoint = "/2/files/download"
                /\ IsNotFound(calls[p][i].resp)) =>
                /\ calls[p][i].err = Nil
                /\ existing[p] = ""
                /\ pc[p] \in {"upload", "report", "exited"}
                /\ pc[p] = "exited" => Did(p, "Upload")
                /\ exitCode[p] = 0 => remote[path[p]] = DocOf(entry[p])

\* a run that found no document and created it
C3_Witness ==
    \E p \in Procs :
        /\ IsAppendRun(p)
        /\ exitCode[p] = 0
        /\ Downloads(p)[1].resp.status = 409
        /\ remote[path[p]].exists
        /\ remote[path[p]].content = "### 09:00:00\na\n"

\* C4: Download returns the body and no error for a complete 200
\* response, and an error with no content for every other response but
\* the 409 not_found one: another 409, another status, a failed
\* transport or a failed read of the body.
C4_DownloadResults ==
    \A p \in Procs :
        \A i \in 1..Len(calls[p]) :
            calls[p][i].req.endpoint = "/2/files/download" =>
                LET x == calls[p][i] IN
                IF IsOK(x.resp)
                THEN /\ x.err = Nil
                     /\ existing[p] = x.resp.body.text
                ELSE IF IsNotFound(x.resp)
                THEN x.err = Nil
                ELSE /\ x.err # Nil
                     /\ existing[p] = ""
                     /\ exitCode[p] = 1
                     /\ ~Did(p, "Upload")

\* a download answered 500 with a body that mentions not_found
C4_Witness ==
    \E p \in Procs :
        /\ Len(Downloads(p)) = 1
        /\ Downloads(p)[1].resp.status = 500
        /\ Contains(Downloads(p)[1].resp.body.text, "not_found")
        /\ exitCode[p] = 1

\* C5: every upload request carries the path, mode "overwrite" and mute
\* true in its argument and the content as its body, and Upload returns no
\* error exactly when the response status is 200.
C5_UploadRequestAndResult ==
    \A p \in Procs :
        \A i \in 1..Len(calls[p]) :
            calls[p][i].req.endpoint = "/2/files/upload" =>
                LET x == calls[p][i] IN
                /\ x.req.arg.path = path[p]
                /\ x.req.arg.mode = "overwrite"
                /\ x.req.arg.mute = TRUE
                /\ x.req.body = newContent[p]
                /\ x.err = Nil <=> (x.resp.sent /\ x.resp.status = 200)

\* an upload that was answered 409
C5_Witness ==
    \E p \in Procs :
        /\ Len(Uploads(p)) = 1
        /\ Uploads(p)[1].resp.status = 409
        /\ Uploads(p)[1].req.body # ""
        /\ exitCode[p] = 1

\* C6: with DROPBOX_TOKEN set, resolveToken returns that value with no
\* error and sends nothing to the token endpoint, whatever the Config.
C6_DirectTokenWins ==
    \A p \in Procs :
        (env[p].DROPBOX_TOKEN # "" /\ Did(p, "resolveToken")) =>
            /\ token[p] = env[p].DROPBOX_TOKEN
            /\ Len(TokenCalls(p)) = 0
            /\ Did(p, "readInput") \/ pc[p] = "readInput"
            /\ \A i \in 1..Len(stderr[p]) : ~TellsToAuthorize(stderr[p][i])

\* a direct token and a Config with all three credentials
C6_Witness ==
    \E p \in Procs :
        /\ env[p].DROPBOX_TOKEN = "direct_token"
        /\ cfg[p].AppKey # "" /\ cfg[p].AppSecret # "" /\ cfg[p].RefreshToken # ""
        /\ pc[p] = "readInput"
        /\ token[p] = "direct_token"

\* C7: without a direct token and with app key, app secret and refresh
\* token, resolveToken sends exactly one refresh, with these credentials;
\* when it succeeds the token is the access token of the response, and
\* when it fails the run ends with an error that tells the user to run
\* the authorization flow and wraps the cause, after no other request.
C7_RefreshOnce ==
    \A p \in Procs :
        (/\ env[p].DROPBOX_TOKEN = ""
         /\ cfg[p].AppKey # "" /\ cfg[p].AppSecret # "" /\ cfg[p].RefreshToken # ""
         /\ Did(p, "resolveToken")) =>
            /\ Len(TokenCalls(p)) = 1
            /\ LET x == TokenCalls(p)[1] IN
               /\ x.req.grant_type = "refresh_token"
               /\ x.req.credential = cfg[p].RefreshToken
               /\ x.req.client_id = cfg[p].AppKey
               /\ x.req.client_secret = cfg[p].AppSecret
               /\ IF x.err = Nil
                  THEN /\ token[p] = JSONString(x.resp.body, "access_token")
                       /\ Did(p, "readInput") \/ pc[p] = "readInput"
                  ELSE /\ token[p] = ""
                       /\ exitCode[p] = 1
                       /\ Len(calls[p]) = 1
                       /\ Len(stderr[p]) = 1
                       /\ TellsToAuthorize(stderr[p][1])
                       /\ stderr[p][1].cause = <<x.err>>
                       /\ x.err # Nil

\* a refresh that the token endpoint refused
C7_Witness ==
    \E p \in Procs :
        /\ env[p].DROPBOX_TOKEN = ""
        /\ Len(TokenCalls(p)) = 1
        /\ TokenCalls(p)[1].resp.status = 400
        /\ exitCode[p] = 1

\* C8: without a direct token and with app key, app secret or refresh
\* token empty, resolveToken fails with an error that tells the user to
\* run the authorization flow, and no request is sent.
C8_NoCredentials ==
    \A p \in Procs :
        (/\ env[p].DROPBOX_TOKEN = ""
         /\ cfg[p].AppKey = "" \/ cfg[p].AppSecret = "" \/ cfg[p].RefreshToken = ""
         /\ Did(p, "resolveToken")) =>
            /\ exitCode[p] = 1
            /\ token[p] = ""
            /\ Len(stderr[p]) = 1
            /\ TellsToAuthorize(stderr[p][1])
            /\ Len(calls[p]) = 0
            /\ steps[p] = <<"loadConfig", "resolveToken">>

\* app key and app secret without a refresh token
C8_Witness ==
    \E p \in Procs :
        /\ env[p].DROPBOX_TOKEN = ""
        /\ cfg[p].AppKey # "" /\ cfg[p].AppSecret # "" /\ cfg[p].RefreshToken = ""
        /\ exitCode[p] = 1
        /\ Len(calls[p]) = 0

\* C9: appendContent(existing, entry) is entry when existing is empty;
\* otherwise it is existing, then one newline, then entry, character for
\* character, whatever existing ends with.
C9_AppendContent ==
    (call.fn = "appendContent" /\ call.done) =>
        LET n == Len(call.existing)
            m == Len(call.entry)
        IN  IF n = 0
            THEN call.result = call.entry
            ELSE /\ Len(call.result) = n + 1 + m
                 /\ SubSeq(call.result, 1, n) = call.existing
                 /\ SubSeq(call.result, n + 1, n + 1) = "\n"
                 /\ SubSeq(call.result, n + 2, n + 1 + m) = call.entry

\* a document that ends with a newline and a space
C9_Witness ==
    /\ call.fn = "appendContent"
    /\ call.done
    /\ call.existing = "a\n "
    /\ call.entry = "a\n"
    /\ call.result = "a\n \na\n"

\* C10: with at least one positional argument the input is the arguments
\* joined with single spaces and standard input is not read, also when
\* it is a pipe that holds text.
C10_ArgumentsBeatStdin ==
    \A p \in Procs :
        (Len(args[p]) > 0 /\ Did(p, "readInput")) =>
            /\ input[p] = SpaceSeparated(args[p])
            /\ ~stdin[p].consumed
            /\ Did(p, "formatEntry") \/ pc[p] = "formatEntry"

\* two arguments and a pipe that holds text
C10_Witness ==
    \E p \in Procs :
        /\ args[p] = <<"b", "c">>
        /\ stdin[p].kind = "pipe"
        /\ stdin[p].data = " x y\n"
        /\ Did(p, "Download")
        /\ input[p] = "b c"

\* the error of a run without input
IsNoInput(e) == Contains(e.fmt, "no input provided")

\* C11 as stated: without positional arguments the input is the trimmed
\* standard input when standard input is not a terminal and the trimmed
\* text is not empty; in every other case the run fails with the "no input
\* provided" error, exit code 1, and makes no download and no upload.
C11_EveryOtherCaseIsNoInput ==
    \A p \in Procs :
        (Len(args[p]) = 0 /\ Did(p, "readInput")) =>
            IF stdin[p].kind = "pipe" /\ TrimSpace(stdin[p].data) # ""
            THEN /\ input[p] = TrimSpace(stdin[p].data)
                 /\ Did(p, "formatEntry") \/ pc[p] = "formatEntry"
            ELSE /\ exitCode[p] = 1
                 /\ Len(stderr[p]) = 1
                 /\ IsNoInput(stderr[p][1])
                 /\ Len(Downloads(p)) = 0
                 /\ Len(Uploads(p)) = 0

\* C11: without positional arguments the input is the trimmed standard
\* input when standard input is not a terminal, is read without error and
\* the trimmed text is not empty. With a terminal, or a pipe whose content
\* is empty or white space, the run fails with the "no input provided"
\* error; when reading the pipe fails it fails with the "reading stdin"
\* error that wraps the cause. Whenever readInput gives no text the run
\* ends without success, without a download and without an upload.
C11_StdinOrFailure ==
    \A p \in Procs :
        (Len(args[p]) = 0 /\ Did(p, "readInput")) =>
            IF stdin[p].kind = "pipe" /\ ~stdin[p].fails
                  /\ TrimSpace(stdin[p].data) # ""
            THEN /\ input[p] = TrimSpace(stdin[p].data)
                 /\ stdin[p].consumed
                 /\ Did(p, "formatEntry") \/ pc[p] = "formatEntry"
            ELSE /\ input[p] = ""
                 /\ pc[p] = "exited"
                 /\ exitCode[p] \notin {-1, 0}
                 /\ stdout[p] = <<>>
                 /\ Len(stderr[p]) = 1
                 /\ Len(Downloads(p)) = 0
                 /\ Len(Uploads(p)) = 0
                 /\ stdin[p].kind = "tty" \/ (stdin[p].kind = "pipe" /\ ~stdin[p].fails) =>
                        /\ exitCode[p] = 1
                        /\ IsNoInput(stderr[p][1])
                 /\ stdin[p].kind = "pipe" /\ stdin[p].fails =>
                        /\ exitCode[p] = 1
                        /\ stderr[p][1].fmt = "reading stdin: %w"
                        /\ stderr[p][1].cause # <<>>

\* a pipe that holds only white space
C11_Witness ==
    \E p \in Procs :
        /\ args[p] = <<>>
        /\ stdin[p].kind = "pipe"
        /\ stdin[p].data = " \n\t"
        /\ stdin[p].consumed
        /\ exitCode[p] = 1
        /\ IsNoInput(stderr[p][1])

\* the run printed one of the two success messages
SuccessPrinted(p) ==
    \E i \in 1..Len(stdout[p]) :
        \/ Contains(stdout[p][i], "Appended to ")
        \/ Contains(stdout[p][i], "Authentication successful")

\* the append run's upload was answered 200 and the path was printed
AppendSucceeded(p) ==
    /\ IsAppendRun(p)
    /\ Len(Uploads(p)) = 1
    /\ Uploads(p)[1].resp.sent
    /\ Uploads(p)[1].resp.status = 200
    /\ stdout[p] = <<"Appended to " \o path[p] \o "\n">>

\* the auth run has saved its Config
AuthSucceeded(p) ==
    /\ IsAuthRun(p)
    /\ Did(p, "saveConfig")
    /\ configFile = FileOf(BodyOf(MarshalIndent(cfg[p])))

\* the command line asks for the usage
HelpAsked(p) == ~IsAuthRun(p) /\ flagParse(argv[p]).err = "help"

\* flag.Parse refuses the command line
Rejected(p) == ~IsAuthRun(p) /\ flagParse(argv[p]).err = "undefined"

\* readInput looked at a standard input whose state it cannot obtain
Crashed(p) ==
    IsAppendRun(p) /\ Did(p, "readInput") /\ readInput(args[p], stdin[p]).panic

\* C12 as stated: a run exits with code 0 exactly when it succeeded
\* (upload answered 200 and path printed, or config saved); every other
\* run that ends exits with code 1, with a message on the error stream
\* and without a success message.
C12_ZeroOrOne ==
    \A p \in Procs :
        pc[p] = "exited" =>
            /\ exitCode[p] = 0 <=> (AppendSucceeded(p) \/ AuthSucceeded(p))
            /\ exitCode[p] # 0 =>
                   /\ exitCode[p] = 1
                   /\ Len(stderr[p]) >= 1
                   /\ ~SuccessPrinted(p)

\* C12: a run exits with code 0 when it succeeded (upload answered 200 and
\* path printed, or config saved) or when the usage was asked for with -h,
\* and only then. A run in which a step of either flow fails exits with
\* code 1; a run whose command line flag.Parse refuses, or which crashes in
\* readInput, exits with code 2. Every run that did not succeed leaves a
\* message on the error stream and prints no success message, and a run
\* that succeeded leaves nothing on the error stream.
C12_ExitCodes ==
    \A p \in Procs :
        IF pc[p] # "exited" THEN exitCode[p] = -1 \/ pc[p] = "idle"
        ELSE LET ok == AppendSucceeded(p) \/ AuthSucceeded(p) IN
             /\ exitCode[p] = 0 <=> (ok \/ HelpAsked(p))
             /\ ok => /\ stderr[p] = <<>>
                      /\ SuccessPrinted(p)
             /\ ~ok => /\ Len(stderr[p]) >= 1
                       /\ ~SuccessPrinted(p)
                       /\ exitCode[p] = IF HelpAsked(p) THEN 0
                                        ELSE IF Rejected(p) \/ Crashed(p) THEN 2
                                        ELSE 1

\* an auth run whose save failed after the file was truncated
C12_Witness ==
    \E p \in Procs :
        /\ IsAuthRun(p)
        /\ Did(p, "saveConfig")
        /\ configFile = FileOf(BodyOf(""))
        /\ exitCode[p] = 1
        /\ Len(stderr[p]) = 1

\* the value of the member key in the file, "" when there is none
FileValue(file, key) ==
    IF file.exists /\ file.body.json /\ \E kv \in file.body.members : kv[1] = key
    THEN (CHOOSE kv \in file.body.members : kv[1] = key)[2]
    ELSE ""

C14_OverridesFieldByField ==
    (call.fn = "loadConfig" /\ call.done) =>
        /\ call.result.AppKey =
               IF call.env.DROPBOX_APP_KEY # "" THEN call.env.DROPBOX_APP_KEY
               ELSE FileValue(call.file, "app_key")
        /\ call.result.AppSecret =
               IF call.env.DROPBOX_APP_SECRET # "" THEN call.env.DROPBOX_APP_SECRET
               ELSE FileValue(call.file, "app_secret")
        /\ call.result.RefreshToken =
               IF call.env.DROPBOX_REFRESH_TOKEN # ""
               THEN call.env.DROPBOX_REFRESH_TOKEN
               ELSE FileValue(call.file, "refresh_token")

\* a complete file and only the app secret in the environment
C14_Witness ==
    /\ call.fn = "loadConfig"
    /\ call.done
    /\ FileValue(call.file, "refresh_token") = "file_refresh"
    /\ call.env = [EmptyEnv EXCEPT !.DROPBOX_APP_SECRET = "env_secret"]
    /\ call.result = [AppKey |-> "file_key", AppSecret |-> "env_secret",
                      RefreshToken |-> "file_refresh"]

\* the string holds no byte that is not valid UTF-8
ValidUTF8(str) == ~Contains(str, InvalidByte)

\* C15 as stated: for every Config c, a saveConfig of c that succeeds and
\* a loadConfig of the same path give a Config equal to c.
C15_SaveThenLoadIsIdentity ==
    (call.fn = "saveConfig" /\ call.done /\ call.err = Nil) =>
        call.result = call.config

\* C15: for every Config c whose fields are valid UTF-8, a saveConfig of c
\* that succeeds and a loadConfig of the same path, with none of
\* DROPBOX_APP_KEY, DROPBOX_APP_SECRET and DROPBOX_REFRESH_TOKEN set to a
\* value that is not empty, give a Config equal to c in its three fields.
C15_SaveThenLoad ==
    (/\ call.fn = "saveConfig" /\ call.done /\ call.err = Nil
     /\ call.env.DROPBOX_APP_KEY = ""
     /\ call.env.DROPBOX_APP_SECRET = ""
     /\ call.env.DROPBOX_REFRESH_TOKEN = ""
     /\ ValidUTF8(call.config.AppKey)
     /\ ValidUTF8(call.config.AppSecret)
     /\ ValidUTF8(call.config.RefreshToken)) =>
        /\ call.result.AppKey = call.config.AppKey
        /\ call.result.AppSecret = call.config.AppSecret
        /\ call.result.RefreshToken = call.config.RefreshToken

\* a Config with a quote, a backslash, a newline and characters that
\* encoding/json writes as \u escapes
C15_Witness ==
    /\ call.fn = "saveConfig"
    /\ call.done
    /\ call.err = Nil
    /\ call.env = EmptyEnv
    /\ call.config = [AppKey |-> "a\"b\\c", AppSecret |-> "l1\nl2<&", RefreshToken |-> ""]
    /\ call.result = call.config
    /\ Contains(configFile.body.text, "\\u003c")

\* the auth run has printed the prompt for the code
Prompted(p) ==
    \E i \in 1..Len(stdout[p]) : Contains(stdout[p][i], "Enter the authorization code")

\* what C16 says of the state of an auth run
AuthRequestOnlyWithCredentials(p) ==
    /\ Len(calls[p]) > 0 =>
           /\ Len(calls[p]) = 1
           /\ calls[p][1].req.endpoint = defaultTokenURL
           /\ cfg[p].AppKey # "" /\ cfg[p].AppSecret # ""
           /\ code[p] # ""
           /\ code[p] = TrimSpace(ScanText(stdin[p]))
           /\ calls[p][1].req.credential = code[p]
    /\ (Did(p, "loadConfig") /\ (cfg[p].AppKey = "" \/ cfg[p].AppSecret = "")) =>
           /\ steps[p] = <<"loadConfig">>
           /\ exitCode[p] = 1
           /\ Len(stderr[p]) >= 1
           /\ ~Prompted(p)
           /\ ~stdin[p].consumed
           /\ Len(calls[p]) = 0
    /\ (Did(p, "scan") /\ TrimSpace(ScanText(stdin[p])) = "") =>
           /\ steps[p] = <<"loadConfig", "prompt", "scan">>
           /\ exitCode[p] = 1
           /\ stderr[p] = <<Errorf("no code entered", 0, "", <<>>)>>
           /\ Prompted(p)
           /\ Len(calls[p]) = 0

\* C16: an auth run sends a request to the token endpoint only when the
\* loaded app key and app secret are both not empty and the code entered,
\* trimmed, is not empty. With the key or the secret missing it fails
\* before the prompt, and with an empty code after the prompt; both exit
\* with code 1 and without a request. The config file changes only in a
\* step of an auth run that has sent its request, so these runs leave it
\* as it was.
C16_AuthRequestOnlyWithCredentials ==
    /\ [](\A p \in Procs : IsAuthRun(p) => AuthRequestOnlyWithCredentials(p))
    /\ [][configFile' # configFile =>
             \E p \in Procs : IsAuthRun(p) /\ Len(calls[p]) = 1]_vars

\* a line of white space at the prompt
C16_Witness ==
    \E p \in Procs :
        /\ IsAuthRun(p)
        /\ stdin[p].data = " \t\n"
        /\ steps[p] = <<"loadConfig", "prompt", "scan">>
        /\ exitCode[p] = 1
        /\ Len(calls[p]) = 0

\* the run printed that saving the config failed
SaveFailed(p) ==
    \E i \in 1..Len(stderr[p]) : stderr[p][i].fmt = "error saving config: %v\n"

\* C17: in an auth run, once the exchange has succeeded the Config holds
\* the refresh token of the response; the run reports success only after
\* the save of that Config has succeeded, the file then holding the
\* Config; a run whose exchange or save failed exits with code 1 and
\* reports no success.
C17_SaveBeforeSuccess ==
    \A p \in Procs :
        IsAuthRun(p) =>
            /\ (Did(p, "exchangeCode") /\ calls[p][1].err = Nil) =>
                   /\ cfg[p].RefreshToken =
                          JSONString(calls[p][1].resp.body, "refresh_token")
                   /\ pc[p] \in {"authSave", "authReport", "exited"}
                   /\ pc[p] # "authSave" => Did(p, "saveConfig")
            /\ (pc[p] = "authReport" \/ SuccessPrinted(p)) =>
                   /\ Did(p, "saveConfig")
                   /\ ~SaveFailed(p)
                   /\ calls[p][1].err = Nil
                   /\ configFile = FileOf(BodyOf(MarshalIndent(cfg[p])))
                   /\ stderr[p] = <<>>
            /\ pc[p] = "authReport" => ~SuccessPrinted(p)
            /\ SuccessPrinted(p) => exitCode[p] = 0
            /\ (Did(p, "exchangeCode") /\ calls[p][1].err # Nil) =>
                   /\ exitCode[p] = 1
                   /\ ~SuccessPrinted(p)
                   /\ ~Did(p, "saveConfig")
            /\ SaveFailed(p) =>
                   /\ exitCode[p] = 1
                   /\ ~SuccessPrinted(p)
            /\ (Did(p, "saveConfig") /\ pc[p] = "exited") =>
                   (exitCode[p] = 0 <=> ~SaveFailed(p))

\* an auth run that saved the refresh token of the exchange
C17_Witness ==
    \E p \in Procs :
        /\ IsAuthRun(p)
        /\ exitCode[p] = 0
        /\ SuccessPrinted(p)
        /\ cfg[p].RefreshToken = "new_refresh"
        /\ FileValue(configFile, "refresh_token") = "new_refresh"

\* the numbers 0 to 99 written with two digits, one after the other
DigitPairs ==
    "00010203040506070809101112131415161718192021222324252627282930313233343536373839404142434445464748495051525354555657585960616263646566676869707172737475767778798081828384858687888990919293949596979899"

\* n, from 0 to 99, written with two digits
TwoDigits(n) == SubSeq(DigitPairs, 2 * n + 1, 2 * n + 2)

\* C18: formatEntry(t, x, TRUE) is x and a newline; formatEntry(t, x,
\* FALSE) is "### ", the hour of the 24-hour clock, the minute and the
\* second of t, each of two digits and with ":" between them, a newline,
\* x and a newline.
C18_FormatEntry ==
    (call.fn = "formatEntry" /\ call.done) =>
        LET n == Len(call.text) IN
        IF call.noTimestamp
        THEN /\ Len(call.result) = n + 1
             /\ SubSeq(call.result, 1, n) = call.text
             /\ SubSeq(call.result, n + 1, n + 1) = "\n"
        ELSE /\ Len(call.result) = 13 + n + 1
             /\ SubSeq(call.result, 1, 4) = "### "
             /\ SubSeq(call.result, 5, 6) = TwoDigits(call.t.hour)
             /\ SubSeq(call.result, 7, 7) = ":"
             /\ SubSeq(call.result, 8, 9) = TwoDigits(call.t.minute)
             /\ SubSeq(call.result, 10, 10) = ":"
             /\ SubSeq(call.result, 11, 12) = TwoDigits(call.t.second)
             /\ SubSeq(call.result, 13, 13) = "\n"
             /\ SubSeq(call.result, 14, 13 + n) = call.text
             /\ SubSeq(call.result, 14 + n, 14 + n) = "\n"

\* an entry of the last second of the day, with a text of two lines
C18_Witness ==
    /\ call.fn = "formatEntry"
    /\ call.done
    /\ ~call.noTimestamp
    /\ call.t.hour = 23
    /\ call.text = "a\na"
    /\ call.result = "### 23:59:59\na\na\n"

\* C19: resolvePath gives "/Notes/Journal/", the year in four digits, "/",
\* the month in two digits, "/Note", the same year and month and the day
\* in two digits, and ".md"; two times of one date give the same path.
C19_ResolvePath ==
    (call.fn = "resolvePath" /\ call.done) =>
        LET yyyy == TwoDigits(call.t.year \div 100) \o TwoDigits(call.t.year % 100)
            mm == TwoDigits(call.t.month)
            dd == TwoDigits(call.t.day)
        IN  /\ Len(call.result) = 38
            /\ SubSeq(call.result, 1, 15) = "/Notes/Journal/"
            /\ SubSeq(call.result, 16, 19) = yyyy
            /\ SubSeq(call.result, 20, 20) = "/"
            /\ SubSeq(call.result, 21, 22) = mm
            /\ SubSeq(call.result, 23, 27) = "/Note"
            /\ SubSeq(call.result, 28, 35) = yyyy \o mm \o dd
            /\ SubSeq(call.result, 36, 38) = ".md"
            /\ SubSeq(call.result, 16, 19) = SubSeq(call.result, 28, 31)
            /\ SubSeq(call.result, 21, 22) = SubSeq(call.result, 32, 33)
            /\ call.otherResult = call.result

\* the ninth of September 987, at midnight and at the last second
C19_Witness ==
    /\ call.fn = "resolvePath"
    /\ call.done
    /\ call.t = [year |-> 987, month |-> 9, day |-> 9,
                 hour |-> 0, minute |-> 0, second |-> 0]
    /\ call.other.hour = 23
    /\ call.result = "/Notes/Journal/0987/09/Note09870909.md"
    /\ call.otherResult = call.result

\* the value of the string member key of a JSON body, "" without it
MemberOf(body, key) ==
    IF \E kv \in body.members : kv[1] = key
    THEN (CHOOSE kv \in body.members : kv[1] = key)[2]
    ELSE ""

\* what C20 says of one application, given the answers that are to fail
TokenResults(fails) ==
    IF fails
    THEN /\ call.err # Nil
         /\ call.result = NoTokens
    ELSE /\ call.err = Nil
         /\ call.result.AccessToken = MemberOf(call.resp.body, "access_token")
         /\ call.result.RefreshToken =
                IF call.fn = "exchangeCode"
                THEN MemberOf(call.resp.body, "refresh_token") ELSE ""

PositionsOf(p, endpoint) ==
    {i \in 1..Len(calls[p]) : calls[p][i].req.endpoint = endpoint}

\* the run printed the path it appended to
AppendedPrinted(p) ==
    \E i \in 1..Len(stdout[p]) : Contains(stdout[p][i], "Appended to ")

\* C21: a run of the append flow makes at most one download request and
\* at most one upload request, both for the same path; the upload request
\* comes after the download, whose answer main has by then; the path is
\* printed only after the upload was answered 200; no request is made
\* twice.
C21_OneDownloadOneUpload ==
    \A p \in Procs :
        IsAppendRun(p) =>
            /\ Len(Downloads(p)) <= 1
            /\ Len(Uploads(p)) <= 1
            /\ \A i, j \in 1..Len(calls[p]) :
                   calls[p][i].req = calls[p][j].req => i = j
            /\ Len(Uploads(p)) = 1 =>
                   /\ Len(Downloads(p)) = 1
                   /\ Uploads(p)[1].req.arg.path = Downloads(p)[1].req.arg.path
                   /\ \A d \in PositionsOf(p, "/2/files/download") :
                      \A u \in PositionsOf(p, "/2/files/upload") : d < u
                   /\ Did(p, "Download")
                   /\ Downloads(p)[1].err = Nil
            /\ (AppendedPrinted(p) \/ pc[p] = "report") =>
                   /\ Len(Uploads(p)) = 1
                   /\ Uploads(p)[1].resp.sent
                   /\ Uploads(p)[1].resp.status = 200
                   /\ Uploads(p)[1].err = Nil
                   /\ calls[p][Len(calls[p])].req.endpoint = "/2/files/upload"

\* a run that refreshed its token, downloaded, uploaded and printed the
\* path: three requests, one to each endpoint
C21_Witness ==
    \E p \in Procs :
        /\ IsAppendRun(p)
        /\ AppendedPrinted(p)
        /\ Len(calls[p]) = 3
        /\ Len(TokenCalls(p)) = 1
        /\ Len(Downloads(p)) = 1
        /\ Len(Uploads(p)) = 1
        /\ Downloads(p)[1].resp.status = 200

\* the steps of the append flow, in the order of main
AppendOrder ==
    <<"loadConfig", "resolveToken", "readInput", "formatEntry", "Download",
      "Upload", "report">>

\* the last step p's run has executed
LastStep(p) == steps[p][Len(steps[p])]

\* p's run ended without success at the step
FailedAt(p, step) ==
    /\ pc[p] = "exited"
    /\ exitCode[p] # 0
    /\ Len(steps[p]) > 0
    /\ LastStep(p) = step

\* p's run has a token: the direct one without any request, or the one of
\* a refresh that returned without error
TokenResolved(p) ==
    /\ Did(p, "resolveToken")
    /\ IF env[p].DROPBOX_TOKEN # ""
       THEN Len(TokenCalls(p)) = 0
       ELSE Len(TokenCalls(p)) = 1 /\ TokenCalls(p)[1].err = Nil

\* p's run has read an input
InputRead(p) ==
    /\ Did(p, "readInput")
    /\ readInput(args[p], stdin[p]).err = Nil
    /\ ~readInput(args[p], stdin[p]).panic

\* C22: in the append flow a step that fails ends the run at that step.
\* An upload request is made only when the token was resolved, the input
\* was read and the download returned without error in the same run; a
\* run that failed at the token, at the input or at the download made no
\* upload request and left the server as it was; and a document the
\* server wrote for an upload whose answer was a failure stays written.
C22_FailureStopsTheRun ==
    \A p \in Procs :
        ~IsAuthRun(p) =>
            /\ steps[p] = SubSeq(AppendOrder, 1, Len(steps[p]))
            /\ Len(Uploads(p)) > 0 =>
                   /\ TokenResolved(p)
                   /\ InputRead(p)
                   /\ Len(Downloads(p)) = 1
                   /\ Downloads(p)[1].err = Nil
            /\ (Did(p, "resolveToken") /\ ~TokenResolved(p)) =>
                   FailedAt(p, "resolveToken")
            /\ (Did(p, "readInput") /\ ~InputRead(p)) =>
                   FailedAt(p, "readInput")
            /\ (Len(Downloads(p)) = 1 /\ Downloads(p)[1].err # Nil) =>
                   FailedAt(p, "Download")
            /\ (Len(Uploads(p)) = 1 /\ Uploads(p)[1].err # Nil) =>
                   FailedAt(p, "Upload")
            /\ (pc[p] = "exited" /\ exitCode[p] # 0 /\ Len(steps[p]) > 0) =>
                   LastStep(p) \in {"resolveToken", "readInput", "Download", "Upload"}
            /\ (\E s \in {"resolveToken", "readInput", "Download"} : FailedAt(p, s)) =>
                   /\ Len(Uploads(p)) = 0
                   /\ writes = <<>>
                   /\ ~AppendedPrinted(p)
            /\ (FailedAt(p, "Upload") /\ Len(writes) = 1) =>
                   /\ remote[path[p]] = DocOf(newContent[p])
                   /\ calls[p][Len(calls[p])].req.endpoint = "/2/files/upload"

\* a run whose refresh succeeded and whose download was refused: it ended
\* with code 1 at the download, without an upload
C22_Witness ==
    \E p \in Procs :
        /\ IsAppendRun(p)
        /\ Len(TokenCalls(p)) = 1
        /\ TokenCalls(p)[1].err = Nil
        /\ FailedAt(p, "Download")
        /\ Downloads(p)[1].resp.status = 401
        /\ exitCode[p] = 1
        /\ Len(Uploads(p)) = 0
        /\ writes = <<>>

\* p's run has no positional argument and a standard input for which
\* readInput returns the "no input provided" error
NoInputGiven(p) ==
    /\ Len(args[p]) = 0
    /\ IsNoInput(readInput(args[p], stdin[p]).err)

\* the Config of p's run holds the three values a refresh needs
HasRefreshCredentials(p) ==
    cfg[p].AppKey # "" /\ cfg[p].AppSecret # "" /\ cfg[p].RefreshToken # ""

\* C26: the append flow executes load config, resolve token, read input,
\* compute now with path and entry, download, combine and upload in this
\* order. Standard input is not read before the token is resolved. A run
\* without a direct token, with refresh credentials and without input
\* makes the refresh request first and, when the refresh succeeds, fails
\* with the "no input provided" error; a run with neither credentials nor
\* input fails with the authentication error without looking at its input.
C26_TokenBeforeInput ==
    \A p \in Procs :
        IsAppendRun(p) =>
            /\ \A i \in 1..Len(steps[p]) : steps[p][i] = AppendOrder[i]
            /\ pc[p] \in {"loadConfig", "resolveToken"} =>
                   ~stdin[p].consumed /\ input[p] = ""
            /\ Did(p, "readInput") => TokenResolved(p) /\ token[p] # ""
            /\ Did(p, "formatEntry") =>
                   /\ now[p] \in Times
                   /\ path[p] = resolvePath(now[p])
                   /\ entry[p] = formatEntry(now[p], input[p], noTimestamp[p])
            /\ Len(Downloads(p)) = 1 =>
                   /\ Did(p, "formatEntry")
                   /\ Downloads(p)[1].req.arg.path = path[p]
            /\ Did(p, "Upload") =>
                   /\ newContent[p] = appendContent(existing[p], entry[p])
                   /\ Uploads(p)[1].req.body = newContent[p]
            /\ (NoInputGiven(p) /\ pc[p] = "exited" /\ env[p].DROPBOX_TOKEN = "") =>
                   IF HasRefreshCredentials(p)
                   THEN /\ Len(calls[p]) = 1
                        /\ Len(TokenCalls(p)) = 1
                        /\ TokenCalls(p)[1].req.credential = cfg[p].RefreshToken
                        /\ exitCode[p] = 1
                        /\ Len(stderr[p]) = 1
                        /\ IF TokenCalls(p)[1].err = Nil
                           THEN /\ IsNoInput(stderr[p][1])
                                /\ steps[p] = <<"loadConfig", "resolveToken", "readInput">>
                           ELSE /\ ~IsNoInput(stderr[p][1])
                                /\ steps[p] = <<"loadConfig", "resolveToken">>
                   ELSE /\ Len(calls[p]) = 0
                        /\ exitCode[p] = 1
                        /\ Len(stderr[p]) = 1
                        /\ TellsToAuthorize(stderr[p][1])
                        /\ ~IsNoInput(stderr[p][1])
                        /\ ~stdin[p].consumed
                        /\ steps[p] = <<"loadConfig", "resolveToken">>

\* a run at a terminal, without arguments, whose refresh was answered
\* with an access token: one request, then the "no input provided" error
C26_Witness ==
    \E p \in Procs :
        /\ IsAppendRun(p)
        /\ NoInputGiven(p)
        /\ env[p].DROPBOX_TOKEN = ""
        /\ HasRefreshCredentials(p)
        /\ Len(TokenCalls(p)) = 1
        /\ TokenCalls(p)[1].err = Nil
        /\ pc[p] = "exited"
        /\ exitCode[p] = 1
        /\ IsNoInput(stderr[p][1])

\* s ends with suffix
EndsWith(s, suffix) ==
    /\ Len(s) >= Len(suffix)
    /\ SubSeq(s, Len(s) - Len(suffix) + 1, Len(s)) = suffix

\* C30: with at least one positional argument readInput returns the
\* arguments joined by single spaces, not trimmed, and no error, also when
\* that text is empty or blank; the run goes on, and what it uploads ends
\* with the entry of that text. Only a run without arguments can fail with
\* the "no input provided" error.
C30_ArgumentsAreNeverRejected ==
    \A p \in Procs :
        IsAppendRun(p) =>
            /\ Len(args[p]) > 0 =>
                   /\ readInput(args[p], stdin[p]).err = Nil
                   /\ ~readInput(args[p], stdin[p]).panic
                   /\ readInput(args[p], stdin[p]).text = SpaceSeparated(args[p])
                   /\ Did(p, "readInput") =>
                          /\ input[p] = SpaceSeparated(args[p])
                          /\ ~FailedAt(p, "readInput")
                          /\ pc[p] = "exited" => Did(p, "Download")
                   /\ Len(Uploads(p)) = 1 =>
                          /\ entry[p] = formatEntry(now[p], SpaceSeparated(args[p]),
                                                    noTimestamp[p])
                          /\ EndsWith(Uploads(p)[1].req.body, entry[p])
            /\ (\E i \in 1..Len(stderr[p]) : IsNoInput(stderr[p][i])) =>
                   /\ Len(args[p]) = 0
                   /\ stdin[p].kind = "pipe" => TrimSpace(stdin[p].data) = ""

\* a run with the one argument "" that uploaded a header followed by an
\* empty line and printed the path
C30_Witness ==
    \E p \in Procs :
        /\ IsAppendRun(p)
        /\ args[p] = <<"">>
        /\ input[p] = ""
        /\ AppendedPrinted(p)
        /\ entry[p] = "### 14:30:45\n\n"
        /\ EndsWith(Uploads(p)[1].req.body, "### 14:30:45\n\n")
        /\ Len(writes) = 1

\* how many times p's run has executed the step
CountOf(p, step) == Len(SelectSeq(steps[p], LAMBDA s : s = step))

\* p's run of the auth flow has exchanged its code without error
Exchanged(p) ==
    /\ IsAuthRun(p)
    /\ Len(calls[p]) = 1
    /\ calls[p][1].req.grant_type = "authorization_code"
    /\ calls[p][1].err = Nil

\* C24: the append flow never writes the config file, also not after a
\* refresh; the file is written only by saveConfig in a run of the auth
\* flow whose code exchange succeeded, and at most once in a run.
C24_ConfigWrittenOnlyByAuth ==
    /\ [](\A p \in Procs :
              /\ CountOf(p, "saveConfig") <= 1
              /\ Did(p, "saveConfig") => Exchanged(p)
              /\ ~IsAuthRun(p) => ~Did(p, "saveConfig"))
    /\ [][configFile' # configFile =>
              \E p \in Procs :
                  /\ Exchanged(p)
                  /\ pc[p] = "authSave"
                  /\ pc'[p] \in {"authReport", "exited"}
                  /\ ~Did(p, "saveConfig")
                  /\ steps'[p] = Append(steps[p], "saveConfig")]_vars

\* after an authorization that saved a new refresh token, an append run
\* that refreshed with it and succeeded: the file is still the one the
\* auth run wrote
C24_Witness ==
    /\ IsAuthRun("sh1")
    /\ exitCode["sh1"] = 0
    /\ IsAppendRun("sh2")
    /\ exitCode["sh2"] = 0
    /\ Len(TokenCalls("sh2")) = 1
    /\ AppendedPrinted("sh2")
    /\ configFile = FileOf(BodyOf(MarshalIndent(cfg["sh1"])))
    /\ FileValue(configFile, "refresh_token") = "new_refresh"

\* p's auth run exchanged its code for an answer without a refresh token
ExchangedWithoutRefreshToken(p) ==
    /\ Exchanged(p)
    /\ IsOK(calls[p][1].resp)
    /\ JSONString(calls[p][1].resp.body, "refresh_token") = ""

\* p's auth run ended with the success message and exit code 0
AuthReported(p) ==
    /\ IsAuthRun(p)
    /\ pc[p] = "exited"
    /\ exitCode[p] = 0
    /\ stdout[p][Len(stdout[p])] = "\nAuthentication successful! Refresh token saved.\n"

\* C27: an auth run whose exchange was answered 200 without a refresh
\* token goes on as after any other successful exchange: its Config gets
\* the empty refresh token, the save replaces whatever refresh token the
\* file held by the empty string, and the run reports success. An append
\* run that follows, with neither a direct token nor a refresh token in
\* its environment, then fails with the "no authentication configured"
\* error without any request.
C27_EmptyRefreshTokenIsSaved ==
    /\ [](\A p \in Procs :
              ExchangedWithoutRefreshToken(p) =>
                  /\ cfg[p].RefreshToken = ""
                  /\ pc[p] \in {"authSave", "authReport", "exited"}
                  /\ pc[p] = "authReport" =>
                         /\ configFile = FileOf(BodyOf(MarshalIndent(cfg[p])))
                         /\ FileValue(configFile, "refresh_token") = ""
                  /\ pc[p] = "exited" => AuthReported(p) \/ SaveFailed(p)
                  /\ AuthReported(p) =>
                         /\ FileValue(configFile, "refresh_token") = ""
                         /\ \A q \in Procs :
                                (/\ IsAppendRun(q)
                                 /\ Did(q, "resolveToken")
                                 /\ env[q].DROPBOX_TOKEN = ""
                                 /\ env[q].DROPBOX_REFRESH_TOKEN = "") =>
                                    /\ pc[q] = "exited"
                                    /\ exitCode[q] = 1
                                    /\ Len(calls[q]) = 0
                                    /\ stderr[q] =
                                         <<Errorf("no authentication configured, run: dropbox-appender auth",
                                                  0, "", <<>>)>>)
    /\ [][\A p \in Procs :
              (/\ ExchangedWithoutRefreshToken(p)
               /\ pc[p] = "authSave"
               /\ pc'[p] = "authReport") =>
                  /\ FileValue(configFile', "refresh_token") = ""
                  /\ FileValue(configFile', "app_key") = cfg[p].AppKey]_vars

\* an auth run that had a refresh token in its Config when it asked for
\* the code, got an answer without one and reported success, followed by
\* an append run that failed for want of credentials
C27_Witness ==
    /\ ExchangedWithoutRefreshToken("sh1")
    /\ AuthReported("sh1")
    /\ env["sh1"].DROPBOX_REFRESH_TOKEN = ""
    /\ FileValue(configFile, "app_secret") = "file_secret"
    /\ FileValue(configFile, "refresh_token") = ""
    /\ IsAppendRun("sh2")
    /\ env["sh2"].DROPBOX_TOKEN = ""
    /\ exitCode["sh2"] = 1
    /\ TellsToAuthorize(stderr["sh2"][1])
    /\ Len(calls["sh2"]) = 0

\* the Config an auth run saves for a file, an environment and the answer
\* to its exchange: the loaded Config with the refresh token of the answer
SavedConfig(file, e, resp) ==
    [loadConfig(file, e) EXCEPT !.RefreshToken = JSONString(resp.body, "refresh_token")]

\* C28: until its exchange an auth run holds the Config as loadConfig
\* returned it, environment values over file values; the file a
\* successful save leaves is the JSON of that Config with the refresh
\* token replaced by the one of the exchange, so that an app key or app
\* secret of the environment is in the file afterwards, whatever the file
\* held for it before.
C28_SavesLoadedConfig ==
    /\ [](\A p \in Procs :
              (IsAuthRun(p) /\ pc[p] \in {"authPrompt", "authScan", "authExchange"}) =>
                  cfg[p] = loadConfig(configFile, env[p]))
    /\ [][\A p \in Procs :
              (pc[p] = "authSave" /\ pc'[p] = "authReport") =>
                  LET saved == SavedConfig(configFile, env[p], calls[p][1].resp) IN
                  /\ cfg[p] = saved
                  /\ configFile' = FileOf(BodyOf(MarshalIndent(saved)))
                  /\ FileValue(configFile', "refresh_token") = saved.RefreshToken
                  /\ env[p].DROPBOX_APP_KEY # "" =>
                         FileValue(configFile', "app_key") = env[p].DROPBOX_APP_KEY
                  /\ env[p].DROPBOX_APP_SECRET # "" =>
                         FileValue(configFile', "app_secret") = env[p].DROPBOX_APP_SECRET
                  /\ env[p].DROPBOX_APP_KEY = "" =>
                         FileValue(configFile', "app_key") = FileValue(configFile, "app_key")
                  /\ env[p].DROPBOX_APP_SECRET = "" =>
                         FileValue(configFile', "app_secret") =
                             FileValue(configFile, "app_secret")]_vars

\* an auth run with an app key in its environment on a file that held
\* another app key and an app secret: the file now holds the app key of
\* the environment, the app secret it had and the new refresh token
C28_Witness ==
    /\ AuthReported("sh1")
    /\ env["sh1"].DROPBOX_APP_KEY = "env_key"
    /\ env["sh1"].DROPBOX_APP_SECRET = ""
    /\ FileValue(configFile, "app_key") = "env_key"
    /\ FileValue(configFile, "app_secret") = "file_secret"
    /\ FileValue(configFile, "refresh_token") = "new_refresh"

\* C29 as stated: after a successful auth run, the next append run
\* without a direct token refreshes with the refresh token the auth run
\* persisted when DROPBOX_REFRESH_TOKEN is unset or empty, and with the
\* value of DROPBOX_REFRESH_TOKEN, never the persisted one, when it is set.
C29_RefreshesWithPersistedToken ==
    \A q \in Procs :
        (/\ AuthReported("sh1")
         /\ IsAppendRun(q)
         /\ env[q].DROPBOX_TOKEN = ""
         /\ Did(q, "resolveToken")) =>
            /\ Len(TokenCalls(q)) = 1
            /\ TokenCalls(q)[1].req.grant_type = "refresh_token"
            /\ TokenCalls(q)[1].req.credential =
                   IF env[q].DROPBOX_REFRESH_TOKEN = ""
                   THEN FileValue(configFile, "refresh_token")
                   ELSE env[q].DROPBOX_REFRESH_TOKEN

\* C29: after a successful auth run, the next append run without a direct
\* token makes one refresh request. With DROPBOX_REFRESH_TOKEN set, its
\* refresh token is the value of that variable and not the persisted one.
\* With DROPBOX_REFRESH_TOKEN unset or empty it is the refresh token the
\* auth run persisted, if that one is not empty; if the auth run
\* persisted an empty refresh token the append run makes no request and
\* fails with the "no authentication configured" error.
C29_RefreshAfterAuth ==
    \A q \in Procs :
        (/\ AuthReported("sh1")
         /\ IsAppendRun(q)
         /\ env[q].DROPBOX_TOKEN = ""
         /\ Did(q, "resolveToken")) =>
            LET persisted == FileValue(configFile, "refresh_token")
                used == IF env[q].DROPBOX_REFRESH_TOKEN # ""
                        THEN env[q].DROPBOX_REFRESH_TOKEN
                        ELSE persisted
            IN
            /\ persisted = cfg["sh1"].RefreshToken
            /\ persisted = JSONString(calls["sh1"][1].resp.body, "refresh_token")
            /\ IF used = ""
               THEN /\ Len(calls[q]) = 0
                    /\ exitCode[q] = 1
                    /\ TellsToAuthorize(stderr[q][1])
               ELSE /\ Len(TokenCalls(q)) = 1
                    /\ TokenCalls(q)[1].req =
                           RefreshRequest(defaultTokenURL, cfg[q].AppKey,
                                          cfg[q].AppSecret, used)
                    /\ env[q].DROPBOX_REFRESH_TOKEN # "" =>
                           TokenCalls(q)[1].req.credential # persisted

\* an append run that refreshed with the refresh token the auth run
\* before it had saved, and went on
C29_Witness ==
    /\ AuthReported("sh1")
    /\ IsAppendRun("sh2")
    /\ env["sh2"].DROPBOX_TOKEN = ""
    /\ env["sh2"].DROPBOX_REFRESH_TOKEN = ""
    /\ FileValue(configFile, "refresh_token") = "new_refresh"
    /\ Len(TokenCalls("sh2")) = 1
    /\ TokenCalls("sh2")[1].req.credential = "new_refresh"
    /\ TokenCalls("sh2")[1].err = Nil
    /\ token["sh2"] # ""

\* the two runs overlapped on one document: both downloaded the same path
\* and got the same answer, which is the document as it was before either
\* of them uploaded
Overlapped(p, q) ==
    /\ p # q
    /\ IsAppendRun(p) /\ IsAppendRun(q)
    /\ Len(Downloads(p)) = 1 /\ Len(Downloads(q)) = 1
    /\ Downloads(p)[1].err = Nil
    /\ Downloads(p)[1].req.arg.path = Downloads(q)[1].req.arg.path
    /\ Downloads(p)[1].resp = Downloads(q)[1].resp

\* p's run uploaded, was answered 200 and printed the path
Reported(p) ==
    /\ Len(Uploads(p)) = 1
    /\ Uploads(p)[1].resp.status = 200
    /\ AppendedPrinted(p)
    /\ exitCode[p] = 0

\* C23: when two append runs overlap on a document, that is both download
\* it before either uploads, and both uploads succeed and both runs
\* report success, the document is what the run that uploaded last sent:
\* the content both had downloaded followed by the entry of that run
\* alone. The server has applied two writes and two runs have reported an
\* entry, and the entry of the run that uploaded first is not in the
\* document behind the downloaded content.
C23_LastWriterWins ==
    \A p, q \in Procs :
        (Overlapped(p, q) /\ Reported(p) /\ Reported(q) /\ Len(writes) = 2
            /\ writes[2].content = Uploads(q)[1].req.body) =>
            LET doc == remote[path[q]].content
                downloaded == Downloads(q)[1].resp.body.text
                base == IF IsOK(Downloads(q)[1].resp) THEN downloaded ELSE ""
            IN
            /\ path[p] = path[q]
            /\ existing[p] = base /\ existing[q] = base
            /\ remote[path[q]].exists
            /\ doc = (IF base = "" THEN "" ELSE base \o "\n") \o entry[q]
            /\ writes[1].content = (IF base = "" THEN "" ELSE base \o "\n") \o entry[p]
            /\ Len(log) = 2
            /\ Len(doc) < Len(base) + Len(entry[p]) + Len(entry[q])
            /\ entry[p] # entry[q] => ~EndsWith(doc, entry[p])
            /\ ~Contains(SubSeq(doc, Len(base) + 1, Len(doc)), entry[p])
                   \/ entry[p] = entry[q]

\* two runs that downloaded the document "x" at different times of the
\* day, both uploaded with success and both reported: the document holds
\* "x" and the entry of the second upload only
C23_Witness ==
    /\ Overlapped("sh1", "sh2")
    /\ Reported("sh1")
    /\ Reported("sh2")
    /\ existing["sh1"] = "x"
    /\ existing["sh2"] = "x"
    /\ entry["sh1"] = "### 14:30:45\na\n"
    /\ entry["sh2"] = "### 09:00:07\nb c\n"
    /\ Len(writes) = 2
    /\ Len(log) = 2
    /\ remote[FirstPath] = DocOf("x\n### 09:00:07\nb c\n")

\* the terminal outcome of p's run is a success: exit code 0, the success
\* message and nothing on the error stream
EndedInSuccess(p) ==
    /\ exitCode[p] = 0
    /\ SuccessPrinted(p)
    /\ stderr[p] = <<>>

\* the terminal outcome of p's run is a failure: an exit code other than
\* 0, a message on the error stream and no success message
EndedInFailure(p) ==
    /\ exitCode[p] \in {1, 2}
    /\ ~SuccessPrinted(p)
    /\ Len(stderr[p]) > 0

\* C25: when every call a run waits for returns, a run that has started
\* ends. A run of the append flow or of the auth flow that has ended has
\* exactly one outcome, a success or a failure, and keeps it; while it
\* runs, each of its steps is a new one of the at most seven steps of its
\* flow, so it can neither loop nor wait for ever.
C25_EveryRunEnds ==
    /\ \A p \in Procs : (pc[p] \notin {"idle", "exited"}) ~> (pc[p] = "exited")
    /\ [](\A p \in Procs :
              /\ Len(steps[p]) <= 7
              /\ pc[p] = "exited" <=> exitCode[p] # -1
              /\ ((IsAppendRun(p) \/ IsAuthRun(p)) /\ pc[p] = "exited") =>
                     /\ EndedInSuccess(p) \/ EndedInFailure(p)
                     /\ ~(EndedInSuccess(p) /\ EndedInFailure(p)))
    /\ [][\A p \in Procs :
              /\ (pc[p] \notin {"idle", "exited"} /\ pc'[p] # pc[p]) =>
                     Len(steps'[p]) = Len(steps[p]) + 1
              /\ (pc[p] = "exited" /\ runsLeft'[p] = runsLeft[p]) =>
                     /\ pc'[p] = "exited"
                     /\ exitCode'[p] = exitCode[p]
                     /\ stdout'[p] = stdout[p]
                     /\ stderr'[p] = stderr[p]]_vars

\* an append run and an auth run each have both outcomes; this is the
\* auth run that failed at its exchange, after four steps
C25_Witness ==
    \E p \in Procs :
        /\ IsAuthRun(p)
        /\ pc[p] = "exited"
        /\ EndedInFailure(p)
        /\ steps[p] = <<"loadConfig", "prompt", "scan", "exchangeCode">>
        /\ calls[p][1].resp.status = 400

====
